---- MODULE Spec2Model ----
(***************************************************************************)
(* State-machine model of the iceberg versioned key-value store            *)
(* (src/src/db.rs, wal.rs, tree.rs, commit.rs, bloom.rs, compaction.rs,    *)
(* storage.rs, index.rs, tag.rs).  Disk files are variables.  put, delete, *)
(* merge,                                                                  *)
(* cherry_pick and rebase advance one file write per action, so that a     *)
(* process death between two writes is a state of the model; the branch    *)
(* operations, rebuild_bloom and compact are one action each.  One thread  *)
(* runs these operations; create_tag runs on two threads of the one        *)
(* handle.  The block store's audit log is not part of the state.          *)
(*                                                                         *)
(* Digests are injective: a digest is the hashed data under a tag.  A      *)
(* timestamp is <<day, n>>, n growing with every commit made, so two       *)
(* commits never share a timestamp (the clock has nanosecond resolution)   *)
(* and age in whole days is the difference of the day parts.               *)
(***************************************************************************)
EXTENDS Integers, Sequences, FiniteSets, TLC

\* ---------------------------------------------------------------- bounds
\* commits created over one run (each commit takes a fresh timestamp)
MaxCommits == 5
\* commits created over one run in which merge and cherry_pick take part
MaxCommitsCore == 4
\* commits created over one run that also rebuilds the bloom filter, stops
\* and reopens the database, or deletes branches and compacts
MaxCommitsLong == 3
\* whole days the clock may advance
MaxDay == 1
\* WAL transaction ids handed out by one handle
MaxTx == 3
\* times the process stops (cleanly or not) and the database is reopened
MaxReopens == 1
\* times the database is reopened over one run of put and delete only
MaxReopensWal == 2
\* records in the WAL when the Wal is called directly
MaxWalLen == 5
\* size of the model's bloom bit vector and its number of hash functions
NumBits == 3
NumHashes == 2
\* the most items a filter called directly counts
MaxFilterCount == 3

\* ---------------------------------------------------------------- inputs
Keys == {"a", "b"}
\* the keys in ascending (BTreeMap) order
KeySeq == <<"a", "b">>
Vals == {"1", "2"}
\* the (key, value) pairs put is called with
PutInputs == {<<"a", "1">>, <<"a", "2">>, <<"b", "1">>}
Branches == {"main", "feat"}
\* the policies find_removable_commits is called with directly
PlannerPolicies ==
    {[max_versions |-> v, max_age_days |-> d] : v \in 0 .. 2, d \in {<<>>, <<0>>}}
\* the commit ids Wal::commit is called with directly
WalCommitIds == {"c1", "c2"}
\* the (key, value) pairs put is called with where indexes are concerned:
\* JSON documents with and without the indexed field, a JSON number and
\* bytes that are not JSON
IdxPutInputs == {<<"a", "{\"f\":\"x\"}">>, <<"a", "{\"f\":\"y\"}">>,
                 <<"b", "{\"f\":\"x\"}">>, <<"b", "{\"g\":\"x\"}">>,
                 <<"a", "1">>, <<"b", "raw">>}
\* the (key, value) pairs each thread calls put with when two threads put
\* at the same time: the threads write different keys
ThreadPuts(t) == IF t = "t1" THEN {<<"a", "1">>, <<"a", "2">>} ELSE {<<"b", "1">>}
\* the names create_tag and delete_tag are called with
TagNames == {"v1", "v2"}
\* the (name, field path) pairs create_index is called with
IndexDefs == {<<"byf", "f">>, <<"byg", "g">>}
IndexNames == {"byf", "byg"}
\* the field values query_index is called with
Tokens == {"x", "y", "1"}
\* retention policies tried by compact: max_versions and max_age_days
\* (<<>> is None, <<d>> is Some(d))
Policies == {[max_versions |-> 1, max_age_days |-> <<>>],
             [max_versions |-> 2, max_age_days |-> <<>>],
             [max_versions |-> 0, max_age_days |-> <<0>>]}

None == <<>>
Some(x) == <<x>>

VARIABLES
    refs,       \* refs/refs.json: [branches: name -> commit id, head: name]
    commits,    \* commits/<id>: set of commit records, one per id
    trees,      \* trees/<root_hash>: set of tree records
    blocks,     \* store/blocks: digests of the stored value blocks
    wal,        \* wal/wal.jsonl: sequence of WalEntry
    bloomFile,  \* bloom/keys.json
    bloom,      \* Database.bloom (in memory)
    next_tx,    \* Wal.next_tx (in memory)
    day,        \* wall clock, whole days
    seq,        \* wall clock, sub-day part: strictly grows with every commit
    op,         \* the operation in flight and its local variables
    reopens,    \* times the database was reopened so far
    indexes,    \* Database.indexes (in memory): index name -> SecondaryIndex
    indexFile,  \* indexes.json
    tags,       \* tags/<id>: set of tag records
    threadOp,   \* per thread: the create_tag or put call in flight
    limit,      \* exploration bound of the run: commits made and reopens
    allocated,  \* history: the transaction ids begin() returned, in call order
    filters,    \* BloomFilter values a caller holds, by name
    inserted,   \* history: per filter, the keys inserted into it or into a
                \* filter merged into it
    locks,      \* Database.wal, .bloom, .indexes as mutexes: the thread that
                \* holds each (<<>> when free)
    blockStore, \* a BlockStore a caller holds: the prefix directories under
                \* blocks/ and the block files in them
    buckets,    \* an IndexManager a caller holds: index name -> SecondaryIndex
                \* with entries as the map field value -> set of primary keys
    returned,   \* history: <<commit id, entries>> for every commit that put
                \* or delete returned, with the tree it committed
    last        \* history: what the last completed step was, with the
                \* pre-state values the properties compare against

\* the index manager and its file
idxVars == <<indexes, indexFile>>
\* the bloom filters, the index and the block store a caller holds
\* directly, and the mutexes of the handle as the threads take them
callerVars == <<filters, inserted, buckets, blockStore, locks>>
\* the tag files and the create_tag calls in flight
tagVars == <<tags, threadOp>>

vars == <<refs, commits, trees, blocks, wal, bloomFile, bloom, next_tx,
          day, seq, op, reopens, indexes, indexFile, tags, threadOp, limit, allocated,
          filters, inserted, buckets, blockStore, locks, returned, last>>

\* Result: Ok(x) and Err(e)
Ok(x) == <<"ok", x>>
Err(e) == <<"err", e>>
IsOk(r) == r[1] = "ok"

\* ---------------------------------------------------------------- block.rs
ComputeHash(data) == <<"sha256", data>>

\* ---------------------------------------------------------------- storage.rs
\* the block contents BlockStore::put is called with directly
BlockData == {"p", "q", "r", "s"}

\* &hash[..2]: the first two characters of the hex digest; the digests of
\* "p" and "q" stand for two digests that begin with the same two characters
ShardPrefix(hash) ==
    CASE hash[2] \in {"p", "q"} -> "ab"
      [] hash[2] = "r" -> "cd"
      [] OTHER -> "ef"

\* BlockStore::open on a new directory: blocks/ is empty
StoreOpen == [dirs |-> {}, files |-> {}]

\* BlockStore::block_path: create_dir_all of the prefix directory is part
\* of computing the path
BlockPath(store, hash) == [store EXCEPT !.dirs = @ \cup {ShardPrefix(hash)}]

\* BlockStore::put: the file is written when the path does not exist
StorePut(store, hash) == [BlockPath(store, hash) EXCEPT !.files = @ \cup {hash}]

\* BlockStore::contains: <<the store afterwards, the answer>>
StoreContains(store, hash) == <<BlockPath(store, hash), hash \in store.files>>

\* BlockStore::block_count: the number of entries of blocks/
BlockCount(store) == Cardinality(store.dirs)

\* ---------------------------------------------------------------- tree.rs
\* entries: a set of <<key, value>> pairs with at most one pair per key
HasKey(entries, k) == \E e \in entries : e[1] = k
ValueOf(entries, k) == (CHOOSE e \in entries : e[1] = k)[2]
KeysOf(entries) == {e[1] : e \in entries}

RECURSIVE SerializeFrom(_, _)
SerializeFrom(entries, i) ==
    IF i > Len(KeySeq) THEN <<>>
    ELSE IF HasKey(entries, KeySeq[i])
         THEN <<<<KeySeq[i], ValueOf(entries, KeySeq[i])>>>>
                  \o SerializeFrom(entries, i + 1)
         ELSE SerializeFrom(entries, i + 1)

\* the pairs in descending key order
SerializeDescending(entries) ==
    LET asc == SerializeFrom(entries, 1)
    IN [i \in 1 .. Len(asc) |-> asc[Len(asc) + 1 - i]]

\* serde_json of a BTreeMap: the pairs in ascending key order
Serialize(entries) == SerializeFrom(entries, 1)

\* a root digest that covers the keys and not the values
ComputeRootOfKeys(entries) ==
    ComputeHash([i \in 1 .. Len(Serialize(entries)) |-> <<Serialize(entries)[i][1], "">>])

ComputeRoot(entries) == ComputeHash(Serialize(entries))

MkTree(entries) == [root_hash |-> ComputeRoot(entries), entries |-> entries]

TreeEmpty == MkTree({})

TreeInsert(t, k, v) == MkTree({e \in t.entries : e[1] # k} \cup {<<k, v>>})

TreeDelete(t, k) == MkTree({e \in t.entries : e[1] # k})

TreeGet(t, k) == IF HasKey(t.entries, k) THEN Some(ValueOf(t.entries, k)) ELSE None

\* the three key lists, each in ascending key order (BTreeMap iteration)
TreeDiff(self, other) ==
    [added    |-> SelectSeq(KeySeq, LAMBDA k :
                      HasKey(other.entries, k) /\ ~HasKey(self.entries, k)),
     modified |-> SelectSeq(KeySeq, LAMBDA k :
                      /\ HasKey(other.entries, k)
                      /\ HasKey(self.entries, k)
                      /\ ValueOf(self.entries, k) # ValueOf(other.entries, k)),
     removed  |-> SelectSeq(KeySeq, LAMBDA k :
                      HasKey(self.entries, k) /\ ~HasKey(other.entries, k))]

\* ---------------------------------------------------------------- commit.rs
ComputeId(parent, tree_root, timestamp, message) ==
    ComputeHash(<<parent, tree_root, timestamp, message>>)

CommitNew(parent, tree_root, message, now) ==
    [id |-> ComputeId(parent, tree_root, now, message),
     parent |-> parent, tree_root |-> tree_root,
     timestamp |-> now, message |-> message]

\* ---------------------------------------------------------------- bloom.rs
KeyCode(k) == IF k = "a" THEN 1 ELSE 2

\* stands for sha256(seed ++ key) mod num_bits
BloomHash(k, seed) == (KeyCode(k) * (seed + 1) + seed) % NumBits

BloomNew == [bits |-> {}, count |-> 0]

BloomInsert(bf, k) ==
    [bits |-> bf.bits \cup {BloomHash(k, i) : i \in 0 .. NumHashes - 1},
     count |-> bf.count + 1]

MayContain(bf, k) == \A i \in 0 .. NumHashes - 1 : BloomHash(k, i) \in bf.bits

\* a BloomFilter with its own parameters; bits is the set of the bits set
FilterNew(num_bits, num_hashes) ==
    [bits |-> {}, num_bits |-> num_bits, num_hashes |-> num_hashes, count |-> 0]

\* BloomFilter::hash: stands for sha256(seed ++ key) mod num_bits
FilterHash(bf, k, seed) == (KeyCode(k) * (seed + 1) + seed) % bf.num_bits

FilterInsert(bf, k) ==
    [bf EXCEPT !.bits = @ \cup {FilterHash(bf, k, i) : i \in 0 .. bf.num_hashes - 1},
               !.count = @ + 1]

FilterMayContain(bf, k) ==
    \A i \in 0 .. bf.num_hashes - 1 : FilterHash(bf, k, i) \in bf.bits

\* a merge that keeps the bits set in both filters
FilterMergeIntersect(bf, other) ==
    IF bf.num_bits # other.num_bits \/ bf.num_hashes # other.num_hashes
    THEN <<bf, FALSE>>
    ELSE <<[bf EXCEPT !.bits = @ \cap other.bits, !.count = @ + other.count], TRUE>>

\* BloomFilter::merge: <<the filter afterwards, the value returned>>
FilterMerge(bf, other) ==
    IF bf.num_bits # other.num_bits \/ bf.num_hashes # other.num_hashes
    THEN <<bf, FALSE>>
    ELSE <<[bf EXCEPT !.bits = @ \cup other.bits, !.count = @ + other.count], TRUE>>

\* ---------------------------------------------------------------- index.rs
\* what serde_json::from_slice makes of a value: None when the bytes are not
\* JSON, else the document as its set of <<field, token>> pairs, the token
\* being the field's value as extract_field prints it; a JSON number is a
\* document without fields
ParseJson(value) ==
    CASE value = "{\"f\":\"x\"}" -> Some({<<"f", "x">>})
      [] value = "{\"f\":\"y\"}" -> Some({<<"f", "y">>})
      [] value = "{\"g\":\"x\"}" -> Some({<<"g", "x">>})
      [] value = "1" -> Some({})
      [] value = "2" -> Some({})
      [] OTHER -> None

\* SecondaryIndex::extract_field for a field path of one part
ExtractField(field_path, value) ==
    LET parsed == ParseJson(value)
    IN IF parsed = None THEN None
       ELSE IF \E f \in parsed[1] : f[1] = field_path
            THEN Some((CHOOSE f \in parsed[1] : f[1] = field_path)[2])
            ELSE None

\* a SecondaryIndex; entries is the inverted map as its set of
\* <<field value, primary key>> pairs (a value without keys is dropped)
IndexNew(name, field_path) == [name |-> name, field_path |-> field_path, entries |-> {}]

RemoveKey(idx, primary_key) ==
    [idx EXCEPT !.entries = {e \in @ : e[2] # primary_key}]

\* index_entry without the removal of the key's old entry
IndexEntryKeepOld(idx, primary_key, value) ==
    LET field_val == ExtractField(idx.field_path, value)
    IN IF field_val = None THEN idx
       ELSE [idx EXCEPT !.entries = @ \cup {<<field_val[1], primary_key>>}]

IndexEntry(idx, primary_key, value) ==
    LET cleared == RemoveKey(idx, primary_key)
        field_val == ExtractField(idx.field_path, value)
    IN IF field_val = None THEN cleared
       ELSE [cleared EXCEPT !.entries = @ \cup {<<field_val[1], primary_key>>}]

Lookup(idx, field_value) == {e[2] : e \in {x \in idx.entries : x[1] = field_value}}

\* SecondaryIndex.entries as the BTreeMap it is: field value -> set of
\* primary keys. remove_key that leaves the emptied buckets in the map:
BucketsRemoveKeyNoPrune(entries, primary_key) ==
    [v \in DOMAIN entries |-> entries[v] \ {primary_key}]

\* SecondaryIndex::remove_key on the map
BucketsRemoveKey(entries, primary_key) ==
    LET stripped == [v \in DOMAIN entries |-> entries[v] \ {primary_key}]
    IN [v \in {w \in DOMAIN stripped : stripped[w] # {}} |-> stripped[v]]

\* SecondaryIndex::index_entry on the map
BucketsIndexEntry(field_path, entries, primary_key, value) ==
    LET cleared == BucketsRemoveKey(entries, primary_key)
        field_val == ExtractField(field_path, value)
    IN IF field_val = None THEN cleared
       ELSE [v \in DOMAIN cleared \cup {field_val[1]} |->
                IF v = field_val[1]
                THEN (IF v \in DOMAIN cleared THEN cleared[v] ELSE {}) \cup {primary_key}
                ELSE cleared[v]]

RECURSIVE BucketsIndexAll(_, _, _, _)
\* index_entry for the pairs i, i+1, ... of the list
BucketsIndexAll(field_path, entries, pairs, i) ==
    IF i > Len(pairs) THEN entries
    ELSE BucketsIndexAll(field_path,
                         BucketsIndexEntry(field_path, entries, pairs[i][1], pairs[i][2]),
                         pairs, i + 1)

NoBuckets == [v \in {} |-> {}]

\* IndexManager: index name -> SecondaryIndex
NoIndexes == [n \in {} |-> IndexNew(n, "")]

\* IndexManager::create_index and drop_index
MgrCreateIndex(mgr, name, field_path) ==
    IF name \in DOMAIN mgr THEN Err("Corruption")
    ELSE Ok([n \in DOMAIN mgr \cup {name} |->
                IF n = name THEN IndexNew(name, field_path) ELSE mgr[n]])

MgrDropIndex(mgr, name) ==
    IF name \notin DOMAIN mgr THEN Err("Corruption")
    ELSE Ok([n \in DOMAIN mgr \ {name} |-> mgr[n]])

OnPut(mgr, key, value) == [n \in DOMAIN mgr |-> IndexEntry(mgr[n], key, value)]

OnDelete(mgr, key) == [n \in DOMAIN mgr |-> RemoveKey(mgr[n], key)]

RECURSIVE IndexAll(_, _, _)
\* for (key, value) in entries { idx.index_entry(key, value) }, in key order
IndexAll(idx, entries, i) ==
    IF i > Len(KeySeq) THEN idx
    ELSE IndexAll(IF HasKey(entries, KeySeq[i])
                  THEN IndexEntry(idx, KeySeq[i], ValueOf(entries, KeySeq[i]))
                  ELSE idx,
                  entries, i + 1)

RebuildAll(mgr, entries) ==
    [n \in DOMAIN mgr |-> IndexAll([mgr[n] EXCEPT !.entries = {}], entries, 1)]

\* IndexManager::query: the keys as a set
Query(mgr, index_name, value) ==
    IF index_name \in DOMAIN mgr THEN Ok(Lookup(mgr[index_name], value))
    ELSE Err("Corruption")

\* ---------------------------------------------------------------- tag.rs
TagNew(name, commit_id, now) ==
    [id |-> ComputeHash(<<"tag", name, commit_id, now>>),
     name |-> name, commit_id |-> commit_id, created_at |-> now]

\* ---------------------------------------------------------------- db.rs: files
CommitExists(cs, id) == \E c \in cs : c.id = id
LoadCommit(cs, id) ==
    IF CommitExists(cs, id) THEN Ok(CHOOSE c \in cs : c.id = id)
    ELSE Err("CommitNotFound")

TreeExists(ts, h) == \E t \in ts : t.root_hash = h
LoadTree(ts, h) ==
    IF TreeExists(ts, h) THEN Ok(CHOOSE t \in ts : t.root_hash = h)
    ELSE Err("Corruption")

\* fs::write(commits/<id>): replaces the file of that id
SaveCommit(cs, c) == {x \in cs : x.id # c.id} \cup {c}
SaveTree(ts, t) == {x \in ts : x.root_hash # t.root_hash} \cup {t}

HeadCommit(r, cs) ==
    IF r.head \in DOMAIN r.branches THEN LoadCommit(cs, r.branches[r.head])
    ELSE Err("EmptyDatabase")

CurrentTree(r, cs, ts) ==
    LET hc == HeadCommit(r, cs)
    IN IF IsOk(hc) THEN LoadTree(ts, hc[2].tree_root) ELSE hc

CurrentTreeOrEmpty(r, cs, ts) ==
    LET ct == CurrentTree(r, cs, ts) IN IF IsOk(ct) THEN ct[2] ELSE TreeEmpty

\* the refs file rewritten with the one branch only
SetBranchOnly(r, name, id) == [r EXCEPT !.branches = [b \in {name} |-> id]]

SetBranch(r, name, id) ==
    [r EXCEPT !.branches =
        [b \in DOMAIN r.branches \cup {name} |->
            IF b = name THEN id ELSE r.branches[b]]]

\* Database::get on given files and filter
GetIn(bf, r, cs, ts, k) ==
    IF bf.count > 0 /\ ~MayContain(bf, k) THEN Err("KeyNotFound")
    ELSE LET ct == CurrentTree(r, cs, ts)
         IN IF ~IsOk(ct) THEN ct
            ELSE IF HasKey(ct[2].entries, k) THEN Ok(ValueOf(ct[2].entries, k))
            ELSE Err("KeyNotFound")

Get(k) == GetIn(bloom, refs, commits, trees, k)

\* ---------------------------------------------------------------- control
Idle == [name |-> "idle", pc |-> "idle"]
\* the threads that share the handle, and a thread outside a call
Threads == {"t1", "t2"}
ThreadIdle == [pc |-> "idle"]
NoEvent == [ev |-> "none"]

Database(n, r) ==
    /\ refs = [branches |-> [b \in {} |-> None], head |-> "main"]
    /\ commits = {}
    /\ trees = {}
    /\ blocks = {}
    /\ wal = <<>>
    /\ bloomFile = BloomNew
    /\ bloom = BloomNew
    /\ next_tx = 1
    /\ day = 0
    /\ seq = 0
    /\ op = Idle
    /\ reopens = 0
    /\ indexes = NoIndexes
    /\ indexFile = NoIndexes
    /\ tags = {}
    /\ threadOp = [t \in Threads |-> ThreadIdle]
    /\ returned = {}
    /\ last = NoEvent
    /\ limit = [commits |-> n, reopens |-> r]
    /\ allocated = <<>>

\* the names of the filters a caller holds, and the parameters they can have
FilterNames == {"f", "g"}
FilterParams == {<<NumBits, NumHashes>>, <<NumBits, 1>>, <<NumBits + 1, NumHashes>>}

\* ---------------------------------------------------------------- the mutexes
Mutexes == {"wal", "bloom", "indexes"}
\* the operations that take a mutex
LockOps == {"open", "get", "put", "delete", "create_index", "drop_index",
            "query_index", "rebuild_bloom", "bloom_stats", "stats"}

\* one scope in which a guard of the mutex m lives: lock, then drop
Hold(m) == <<<<"lock", m>>, <<"drop", m>>>>

\* operations that keep the guard of one mutex while they take the next
LockPlanNested(name) ==
    CASE name = "put" -> <<<<"lock", "wal">>, <<"lock", "bloom">>,
                           <<"drop", "bloom">>, <<"drop", "wal">>>>
      [] name = "stats" -> <<<<"lock", "bloom">>, <<"lock", "wal">>,
                             <<"drop", "wal">>, <<"drop", "bloom">>>>
      [] OTHER -> Hold("indexes")

\* the lock and drop points of each operation, in program order
LockPlan(name) ==
    CASE name = "open" -> Hold("wal")
      [] name = "get" -> Hold("bloom")
      [] name = "put" -> Hold("wal") \o Hold("wal") \o Hold("bloom") \o Hold("bloom")
                             \o Hold("indexes") \o Hold("indexes")
      [] name = "delete" -> Hold("wal") \o Hold("wal") \o Hold("indexes") \o Hold("indexes")
      [] name = "create_index" -> Hold("indexes") \o Hold("indexes")
      [] name = "drop_index" -> Hold("indexes") \o Hold("indexes")
      [] name = "query_index" -> Hold("indexes")
      [] name = "rebuild_bloom" -> Hold("bloom") \o Hold("bloom")
      [] name = "bloom_stats" -> Hold("bloom")
      [] OTHER -> Hold("bloom") \o Hold("indexes") \o Hold("wal")

\* the index manager a caller holds: one empty index per definition
NewBuckets ==
    [n \in IndexNames |->
        [field_path |-> (CHOOSE d \in IndexDefs : d[1] = n)[2], entries |-> NoBuckets]]

Opened(n, r) ==
    /\ Database(n, r)
    /\ filters = [f \in FilterNames |-> FilterNew(NumBits, NumHashes)]
    /\ inserted = [f \in FilterNames |-> {}]
    /\ buckets = NewBuckets
    /\ blockStore = StoreOpen
    /\ locks = [m \in Mutexes |-> None]

\* a fresh database, and filters made with any of the parameters
InitBloom ==
    /\ Database(MaxCommitsLong, MaxReopens)
    /\ filters \in [FilterNames -> {FilterNew(p[1], p[2]) : p \in FilterParams}]
    /\ inserted = [f \in FilterNames |-> {}]
    /\ buckets = NewBuckets
    /\ blockStore = StoreOpen
    /\ locks = [m \in Mutexes |-> None]

Init == Opened(MaxCommits, MaxReopens)
\* the same state, for a run in which merge and cherry_pick take part
InitCore == Opened(MaxCommitsCore, MaxReopens)
\* the same state, for a run that also rebuilds the bloom filter, reopens
\* the database, or deletes branches and compacts
InitLong == Opened(MaxCommitsLong, MaxReopens)
\* the same state, for a run of put and delete that stops and reopens the
\* database several times
InitWal == Opened(MaxCommitsLong, MaxReopensWal)

\* the WAL appends
WalBegin(tx) == [type |-> "Begin", tx_id |-> tx]
WalWrite(tx, k, v) == [type |-> "Write", tx_id |-> tx, key |-> k, value |-> v]
WalDelete(tx, k) == [type |-> "Delete", tx_id |-> tx, key |-> k]
WalCommit(tx, id) == [type |-> "Commit", tx_id |-> tx, commit_id |-> id]

MaxOf(S) == CHOOSE m \in S : \A x \in S : x <= m

\* Wal::open: next_tx from the entries found in the file
WalOpenNextTx(w) ==
    IF w = <<>> THEN 1 ELSE MaxOf({w[i].tx_id : i \in 1 .. Len(w)}) + 1

WalRollback(tx) == [type |-> "Rollback", tx_id |-> tx]

\* the ids of the records of one type in a WAL
TxIdsOf(w, type) == {w[i].tx_id : i \in {j \in 1 .. Len(w) : w[j].type = type}}

\* the HashMap tx_id -> commit_id filled by insert in file order: a later
\* Commit record of an id replaces the earlier one
CommittedMap(w) ==
    [tx \in TxIdsOf(w, "Commit") |->
        w[MaxOf({j \in 1 .. Len(w) : w[j].type = "Commit" /\ w[j].tx_id = tx})].commit_id]

\* recover that takes no notice of Rollback records
WalRecoverNoRollback(w) ==
    [committed |-> CommittedMap(w),
     uncommitted |-> {t \in TxIdsOf(w, "Begin") : t \notin TxIdsOf(w, "Commit")}]

\* Wal::recover
WalRecover(w) ==
    LET begun == TxIdsOf(w, "Begin")
        committed == CommittedMap(w)
        rolled_back == TxIdsOf(w, "Rollback")
    IN [committed |-> committed,
        uncommitted |-> {t \in begun : t \notin DOMAIN committed /\ t \notin rolled_back}]

\* a truncate that leaves the file as it is
WalKeep(w) == w

\* Wal::truncate: the file is rewritten empty
WalTruncate(w) == <<>>

\* ---------------------------------------------------------------- the Wal called directly
\* the records log_write, commit and rollback append for the ids and
\* commit ids they are given (any id, begun or not)
WalApiEntries ==
    {WalWrite(tx, "a", "1") : tx \in 1 .. MaxTx}
        \cup {WalCommit(tx, c) : tx \in 1 .. MaxTx, c \in WalCommitIds}
        \cup {WalRollback(tx) : tx \in 1 .. MaxTx}

\* Wal::begin
WalApiBegin ==
    /\ op.pc = "idle"
    /\ next_tx <= MaxTx
    /\ Len(wal) < MaxWalLen
    /\ wal' = Append(wal, WalBegin(next_tx))
    /\ next_tx' = next_tx + 1
    /\ allocated' = Append(allocated, next_tx)
    /\ last' = NoEvent
    /\ UNCHANGED <<refs, commits, trees, blocks, bloomFile, bloom, day, seq, op, reopens, idxVars, tagVars, returned, limit, callerVars>>

\* Wal::log_write, Wal::commit, Wal::rollback: the record is appended
WalApiLog(entry) ==
    /\ op.pc = "idle"
    /\ Len(wal) < MaxWalLen
    /\ wal' = Append(wal, entry)
    /\ last' = NoEvent
    /\ UNCHANGED <<refs, commits, trees, blocks, bloomFile, bloom, next_tx, day, seq, op, reopens, idxVars, tagVars, returned, limit, allocated, callerVars>>

\* Wal::recover: reads the file and returns the analysis
WalApiRecover ==
    /\ op.pc = "idle"
    /\ last' = [ev |-> "recover", recovery |-> WalRecover(wal)]
    /\ UNCHANGED <<refs, commits, trees, blocks, wal, bloomFile, bloom, next_tx, day, seq, op, reopens, idxVars, tagVars, returned, limit, allocated, callerVars>>

\* ---------------------------------------------------------------- the clock
\* a day passes (days before the first commit only shift the origin)
Tick ==
    /\ op.pc = "idle"
    /\ commits # {}
    /\ day < MaxDay
    /\ day' = day + 1
    /\ last' = NoEvent
    /\ UNCHANGED <<refs, commits, trees, blocks, wal, bloomFile, bloom, next_tx, seq, op, reopens, idxVars, tagVars, returned, limit, allocated, callerVars>>

\* ---------------------------------------------------------------- put
\* wal.begin()
PutBegin(k, v) ==
    /\ op.pc = "idle"
    /\ next_tx <= MaxTx
    /\ seq < limit.commits
    /\ wal' = Append(wal, WalBegin(next_tx))
    /\ next_tx' = next_tx + 1
    /\ allocated' = Append(allocated, next_tx)
    /\ op' = [name |-> "put", pc |-> "begun", key |-> k, value |-> v, tx |-> next_tx,
              pre_refs |-> refs, pre_tree |-> CurrentTree(refs, commits, trees)]
    /\ last' = NoEvent
    /\ UNCHANGED <<refs, commits, trees, blocks, bloomFile, bloom, day, seq, reopens, idxVars, tagVars, returned, limit, callerVars>>

\* wal.log_write(); then the new tree is built in memory
PutLogWrite ==
    /\ op.name = "put" /\ op.pc = "begun"
    /\ wal' = Append(wal, WalWrite(op.tx, op.key, op.value))
    /\ op' = [name |-> "put", pc |-> "logged", key |-> op.key, value |-> op.value,
              tx |-> op.tx, pre_refs |-> op.pre_refs, pre_tree |-> op.pre_tree,
              tree |-> TreeInsert(CurrentTreeOrEmpty(refs, commits, trees),
                                  op.key, op.value),
              msg |-> <<"put", op.key>>]
    /\ last' = NoEvent
    /\ UNCHANGED <<refs, commits, trees, blocks, bloomFile, bloom, next_tx, day, seq, reopens, idxVars, tagVars, returned, limit, allocated, callerVars>>

\* ---------------------------------------------------------------- delete
\* the check delete makes before it touches the WAL: the error of
\* current_tree, KeyNotFound when the tree lacks the key, else the tree
DeleteCheck(r, cs, ts, k) ==
    LET ct == CurrentTree(r, cs, ts)
    IN IF ~IsOk(ct) THEN ct
       ELSE IF ~HasKey(ct[2].entries, k) THEN Err("KeyNotFound")
       ELSE ct

\* what a rejected delete would leave had it called wal.begin() first
DeleteRejectedBegun(k) ==
    /\ op.pc = "idle"
    /\ next_tx <= MaxTx
    /\ ~IsOk(DeleteCheck(refs, commits, trees, k))
    /\ wal' = Append(wal, WalBegin(next_tx))
    /\ next_tx' = next_tx + 1
    /\ allocated' = Append(allocated, next_tx)
    /\ last' = [ev |-> "delete_rejected", key |-> k,
                result |-> DeleteCheck(refs, commits, trees, k),
                pre |-> [wal |-> wal, refs |-> refs, commits |-> commits,
                         trees |-> trees, bloom |-> bloom, bloomFile |-> bloomFile,
                         indexes |-> indexes, indexFile |-> indexFile]]
    /\ UNCHANGED <<refs, commits, trees, blocks, bloomFile, bloom, day, seq, op, reopens, idxVars, tagVars, returned, limit, callerVars>>

\* delete of a key the current tree lacks, or with no current tree: the
\* error is returned from the check
DeleteRejected(k) ==
    /\ op.pc = "idle"
    /\ ~IsOk(DeleteCheck(refs, commits, trees, k))
    /\ last' = [ev |-> "delete_rejected", key |-> k,
                result |-> DeleteCheck(refs, commits, trees, k),
                pre |-> [wal |-> wal, refs |-> refs, commits |-> commits,
                         trees |-> trees, bloom |-> bloom, bloomFile |-> bloomFile,
                         indexes |-> indexes, indexFile |-> indexFile]]
    /\ UNCHANGED <<refs, commits, trees, blocks, wal, bloomFile, bloom, next_tx, day, seq, op, reopens, idxVars, tagVars, returned, limit, allocated, callerVars>>

\* the key must be in the current tree; then wal.begin()
DeleteBegin(k) ==
    /\ op.pc = "idle"
    /\ next_tx <= MaxTx
    /\ seq < limit.commits
    /\ IsOk(DeleteCheck(refs, commits, trees, k))
    /\ wal' = Append(wal, WalBegin(next_tx))
    /\ next_tx' = next_tx + 1
    /\ allocated' = Append(allocated, next_tx)
    /\ op' = [name |-> "delete", pc |-> "begun", key |-> k, tx |-> next_tx,
              pre_refs |-> refs, pre_tree |-> CurrentTree(refs, commits, trees)]
    /\ last' = NoEvent
    /\ UNCHANGED <<refs, commits, trees, blocks, bloomFile, bloom, day, seq, reopens, idxVars, tagVars, returned, limit, callerVars>>

\* wal.log_delete(); then the new tree is built in memory
DeleteLog ==
    /\ op.name = "delete" /\ op.pc = "begun"
    /\ wal' = Append(wal, WalDelete(op.tx, op.key))
    /\ op' = [name |-> "delete", pc |-> "logged", key |-> op.key,
              tx |-> op.tx, pre_refs |-> op.pre_refs, pre_tree |-> op.pre_tree,
              tree |-> TreeDelete(op.pre_tree[2], op.key),
              msg |-> <<"delete", op.key>>]
    /\ last' = NoEvent
    /\ UNCHANGED <<refs, commits, trees, blocks, bloomFile, bloom, next_tx, day, seq, reopens, idxVars, tagVars, returned, limit, allocated, callerVars>>

\* ---------------------------------------------------------------- commit_tree
\* the value blocks of a tree, as BlockStore::put stores them
BlocksOf(t) == {ComputeHash(e[2]) : e \in t.entries}

\* self.save_tree(tree)
CtSaveTree ==
    /\ op.pc = "logged"
    /\ trees' = SaveTree(trees, op.tree)
    /\ op' = [op EXCEPT !.pc = "tree_saved"]
    /\ last' = NoEvent
    /\ UNCHANGED <<refs, commits, blocks, wal, bloomFile, bloom, next_tx, day, seq, reopens, idxVars, tagVars, returned, limit, allocated, callerVars>>

\* self.store.put(block) for every value
CtSaveBlocks ==
    /\ op.pc = "tree_saved"
    /\ blocks' = blocks \cup BlocksOf(op.tree)
    /\ op' = [op EXCEPT !.pc = "blocks_saved"]
    /\ last' = NoEvent
    /\ UNCHANGED <<refs, commits, trees, wal, bloomFile, bloom, next_tx, day, seq, reopens, idxVars, tagVars, returned, limit, allocated, callerVars>>

\* Commit::new(head_commit().ok().map(id), ...); self.save_commit()
CtSaveCommit ==
    /\ op.pc = "blocks_saved"
    /\ seq' = seq + 1
    /\ LET hc == HeadCommit(refs, commits)
           parent == IF IsOk(hc) THEN Some(hc[2].id) ELSE None
           c == CommitNew(parent, op.tree.root_hash, op.msg, <<day, seq'>>)
       IN /\ commits' = SaveCommit(commits, c)
          /\ op' = [f \in DOMAIN op \cup {"commit"} |->
                       IF f = "commit" THEN c
                       ELSE IF f = "pc" THEN "commit_saved" ELSE op[f]]
    /\ last' = NoEvent
    /\ UNCHANGED <<refs, trees, blocks, wal, bloomFile, bloom, next_tx, day, reopens, idxVars, tagVars, returned, limit, allocated, callerVars>>

\* refs.branches.insert(refs.head, commit.id); self.save_refs(); put and
\* delete go on to their WAL commit, merge and cherry_pick return
CtSaveRefs ==
    /\ op.pc = "commit_saved"
    /\ refs' = SetBranch(refs, refs.head, op.commit.id)
    /\ IF op.name \in {"put", "delete"}
       THEN /\ op' = [op EXCEPT !.pc = "refs_saved"]
            /\ last' = NoEvent
       ELSE /\ op' = Idle
            /\ last' = [ev |-> op.name, commit |-> op.commit, pre |-> op.pre]
    /\ UNCHANGED <<commits, trees, blocks, wal, bloomFile, bloom, next_tx, day, seq, reopens, idxVars, tagVars, returned, limit, allocated, callerVars>>

\* the next file write of commit_tree fails (save_tree, store.put,
\* save_commit or save_refs returns an I/O error): put and delete return the
\* error through `?`, the failed write leaves no file
CtIoError ==
    /\ op.name \in {"put", "delete"}
    /\ op.pc \in {"logged", "tree_saved", "blocks_saved", "commit_saved"}
    /\ op' = Idle
    /\ last' = [ev |-> "io_error", name |-> op.name, tx |-> op.tx, pc |-> op.pc]
    /\ UNCHANGED <<refs, commits, trees, blocks, wal, bloomFile, bloom, next_tx, day, seq, reopens, idxVars, tagVars, returned, limit, allocated, callerVars>>

\* wal.commit(tx_id, commit.id)
WalCommitStep ==
    /\ op.pc = "refs_saved"
    /\ wal' = Append(wal, WalCommit(op.tx, op.commit.id))
    /\ op' = [op EXCEPT !.pc = "committed"]
    /\ last' = NoEvent
    /\ UNCHANGED <<refs, commits, trees, blocks, bloomFile, bloom, next_tx, day, seq, reopens, idxVars, tagVars, returned, limit, allocated, callerVars>>

\* bloom.insert(key); self.save_bloom()
PutBloom ==
    /\ op.name = "put" /\ op.pc = "committed"
    /\ bloom' = BloomInsert(bloom, op.key)
    /\ bloomFile' = bloom'
    /\ op' = [op EXCEPT !.pc = "bloom_saved"]
    /\ last' = NoEvent
    /\ UNCHANGED <<refs, commits, trees, blocks, wal, next_tx, day, seq, reopens, idxVars, tagVars, returned, limit, allocated, callerVars>>

\* indexes.on_put(key, value); self.save_indexes(); put returns the commit
PutIndex ==
    /\ op.name = "put" /\ op.pc = "bloom_saved"
    /\ indexes' = OnPut(indexes, op.key, op.value)
    /\ indexFile' = indexes'
    /\ op' = Idle
    /\ returned' = returned \cup {<<op.commit.id, op.tree.entries>>}
    /\ last' = [ev |-> "put", key |-> op.key, value |-> op.value, commit |-> op.commit,
                pre_refs |-> op.pre_refs]
    /\ UNCHANGED <<refs, commits, trees, blocks, wal, bloomFile, bloom, next_tx, day, seq, reopens, tagVars, limit, allocated, callerVars>>

\* indexes.on_delete(key); self.save_indexes(); delete returns the commit
DeleteIndex ==
    /\ op.name = "delete" /\ op.pc = "committed"
    /\ indexes' = OnDelete(indexes, op.key)
    /\ indexFile' = indexes'
    /\ op' = Idle
    /\ returned' = returned \cup {<<op.commit.id, op.tree.entries>>}
    /\ last' = [ev |-> "delete", key |-> op.key, commit |-> op.commit,
                pre_refs |-> op.pre_refs]
    /\ UNCHANGED <<refs, commits, trees, blocks, wal, bloomFile, bloom, next_tx, day, seq, reopens, tagVars, limit, allocated, callerVars>>

\* ---------------------------------------------------------------- put on a thread
\* put called on thread t while other threads may be inside put as well.
\* What one thread does between two of its steps is private to it; the steps
\* are the WAL lock section, the read of the current tree, the file writes
\* of commit_tree, and the lock sections that follow.
ThreadsBeforeCommit ==
    {t \in Threads : threadOp[t].pc \in {"logged", "built", "tree_saved"}}

\* put on a thread whose begin() does not advance next_tx
TPutWalSameTx(t, k, v) ==
    /\ op.pc = "idle"
    /\ threadOp[t].pc = "idle"
    /\ next_tx <= MaxTx
    /\ seq + Cardinality(ThreadsBeforeCommit) < limit.commits
    /\ wal' = wal \o <<WalBegin(next_tx), WalWrite(next_tx, k, v)>>
    /\ next_tx' = next_tx
    /\ allocated' = Append(allocated, next_tx)
    /\ threadOp' = [threadOp EXCEPT ![t] = [pc |-> "logged", name |-> "put", key |-> k,
                                            value |-> v, tx |-> next_tx]]
    /\ last' = NoEvent
    /\ UNCHANGED <<refs, commits, trees, blocks, bloomFile, bloom, day, seq, op, reopens, idxVars, tags, returned, limit, callerVars>>

\* delete on a thread, up to the release of the WAL lock: the tree is read
\* and the key looked up, then one hold of the lock: wal.begin();
\* wal.log_delete(); the new tree is built from the tree read before
TDelWal(t, k) ==
    /\ op.pc = "idle"
    /\ threadOp[t].pc = "idle"
    /\ next_tx <= MaxTx
    /\ seq + Cardinality(ThreadsBeforeCommit) < limit.commits
    /\ IsOk(DeleteCheck(refs, commits, trees, k))
    /\ wal' = wal \o <<WalBegin(next_tx), WalDelete(next_tx, k)>>
    /\ next_tx' = next_tx + 1
    /\ allocated' = Append(allocated, next_tx)
    /\ threadOp' = [threadOp EXCEPT ![t] =
                       [pc |-> "built", name |-> "delete", key |-> k, value |-> "",
                        tx |-> next_tx,
                        tree |-> TreeDelete(DeleteCheck(refs, commits, trees, k)[2], k)]]
    /\ last' = NoEvent
    /\ UNCHANGED <<refs, commits, trees, blocks, bloomFile, bloom, day, seq, op, reopens, idxVars, tags, returned, limit, callerVars>>

\* delete on a thread, after its WAL commit: the index lock,
\* indexes.on_delete(); then save_indexes(); delete returns
TDelIndex(t) ==
    /\ threadOp[t].pc = "committed"
    /\ threadOp[t].name = "delete"
    /\ indexes' = OnDelete(indexes, threadOp[t].key)
    /\ indexFile' = indexes'
    /\ returned' = returned \cup {<<threadOp[t].commit.id, threadOp[t].tree.entries>>}
    /\ last' = [ev |-> "thread_delete", thread |-> t, key |-> threadOp[t].key,
                commit |-> threadOp[t].commit]
    /\ threadOp' = [threadOp EXCEPT ![t] = ThreadIdle]
    /\ UNCHANGED <<refs, commits, trees, blocks, wal, bloomFile, bloom, next_tx, day, seq, op, reopens, tags, limit, allocated, callerVars>>

\* one hold of the WAL lock: wal.begin(); wal.log_write()
TPutWal(t, k, v) ==
    /\ op.pc = "idle"
    /\ threadOp[t].pc = "idle"
    /\ next_tx <= MaxTx
    /\ seq + Cardinality(ThreadsBeforeCommit) < limit.commits
    /\ wal' = wal \o <<WalBegin(next_tx), WalWrite(next_tx, k, v)>>
    /\ next_tx' = next_tx + 1
    /\ allocated' = Append(allocated, next_tx)
    /\ threadOp' = [threadOp EXCEPT ![t] = [pc |-> "logged", name |-> "put", key |-> k,
                                            value |-> v, tx |-> next_tx]]
    /\ last' = NoEvent
    /\ UNCHANGED <<refs, commits, trees, blocks, bloomFile, bloom, day, seq, op, reopens, idxVars, tags, returned, limit, callerVars>>

\* self.current_tree().unwrap_or_else(Tree::empty); tree.insert(key, value)
TPutBuild(t) ==
    /\ threadOp[t].pc = "logged"
    /\ threadOp' = [threadOp EXCEPT ![t] =
                       [pc |-> "built", name |-> "put", key |-> @.key, value |-> @.value,
                        tx |-> @.tx,
                        tree |-> TreeInsert(CurrentTreeOrEmpty(refs, commits, trees),
                                            @.key, @.value)]]
    /\ last' = NoEvent
    /\ UNCHANGED <<refs, commits, trees, blocks, wal, bloomFile, bloom, next_tx, day, seq, op, reopens, idxVars, tags, returned, limit, allocated, callerVars>>

\* commit_tree: self.save_tree(tree); self.store.put(block) for every value
TPutSaveTree(t) ==
    /\ threadOp[t].pc = "built"
    /\ trees' = SaveTree(trees, threadOp[t].tree)
    /\ blocks' = blocks \cup BlocksOf(threadOp[t].tree)
    /\ threadOp' = [threadOp EXCEPT ![t].pc = "tree_saved"]
    /\ last' = NoEvent
    /\ UNCHANGED <<refs, commits, wal, bloomFile, bloom, next_tx, day, seq, op, reopens, idxVars, tags, returned, limit, allocated, callerVars>>

\* commit_tree: Commit::new(head_commit().ok().map(id), ...); save_commit()
TPutSaveCommit(t) ==
    /\ threadOp[t].pc = "tree_saved"
    /\ seq' = seq + 1
    /\ LET hc == HeadCommit(refs, commits)
           parent == IF IsOk(hc) THEN Some(hc[2].id) ELSE None
           c == CommitNew(parent, threadOp[t].tree.root_hash,
                          <<threadOp[t].name, threadOp[t].key>>, <<day, seq'>>)
       IN /\ commits' = SaveCommit(commits, c)
          /\ threadOp' = [threadOp EXCEPT ![t] =
                             [pc |-> "commit_saved", name |-> @.name, key |-> @.key,
                              value |-> @.value,
                              tx |-> @.tx, tree |-> @.tree, commit |-> c]]
    /\ last' = NoEvent
    /\ UNCHANGED <<refs, trees, blocks, wal, bloomFile, bloom, next_tx, day, op, reopens, idxVars, tags, returned, limit, allocated, callerVars>>

\* commit_tree: load_refs(); refs.branches.insert(head, id); save_refs()
TPutSaveRefs(t) ==
    /\ threadOp[t].pc = "commit_saved"
    /\ refs' = SetBranch(refs, refs.head, threadOp[t].commit.id)
    /\ threadOp' = [threadOp EXCEPT ![t].pc = "refs_saved"]
    /\ last' = NoEvent
    /\ UNCHANGED <<commits, trees, blocks, wal, bloomFile, bloom, next_tx, day, seq, op, reopens, idxVars, tags, returned, limit, allocated, callerVars>>

\* one hold of the WAL lock: wal.commit(tx_id, commit.id)
TPutWalCommit(t) ==
    /\ threadOp[t].pc = "refs_saved"
    /\ wal' = Append(wal, WalCommit(threadOp[t].tx, threadOp[t].commit.id))
    /\ threadOp' = [threadOp EXCEPT ![t].pc = "committed"]
    /\ last' = NoEvent
    /\ UNCHANGED <<refs, commits, trees, blocks, bloomFile, bloom, next_tx, day, seq, op, reopens, idxVars, tags, returned, limit, allocated, callerVars>>

\* the bloom lock: bloom.insert(key); then save_bloom()
TPutBloom(t) ==
    /\ threadOp[t].pc = "committed"
    /\ threadOp[t].name = "put"
    /\ bloom' = BloomInsert(bloom, threadOp[t].key)
    /\ bloomFile' = bloom'
    /\ threadOp' = [threadOp EXCEPT ![t].pc = "bloom_saved"]
    /\ last' = NoEvent
    /\ UNCHANGED <<refs, commits, trees, blocks, wal, next_tx, day, seq, op, reopens, idxVars, tags, returned, limit, allocated, callerVars>>

\* the index lock: indexes.on_put(); then save_indexes(); put returns
TPutIndex(t) ==
    /\ threadOp[t].pc = "bloom_saved"
    /\ indexes' = OnPut(indexes, threadOp[t].key, threadOp[t].value)
    /\ indexFile' = indexes'
    /\ returned' = returned \cup {<<threadOp[t].commit.id, threadOp[t].tree.entries>>}
    /\ last' = [ev |-> "thread_put", thread |-> t, key |-> threadOp[t].key,
                commit |-> threadOp[t].commit]
    /\ threadOp' = [threadOp EXCEPT ![t] = ThreadIdle]
    /\ UNCHANGED <<refs, commits, trees, blocks, wal, bloomFile, bloom, next_tx, day, seq, op, reopens, tags, limit, allocated, callerVars>>

\* ---------------------------------------------------------------- indexes
\* create_index: adds the index, rebuilds every index from the current tree
\* when there is one, saves indexes.json; nothing happens when the name is
\* taken
CreateIndex(name, field_path) ==
    /\ op.pc = "idle"
    /\ IsOk(MgrCreateIndex(indexes, name, field_path))
    /\ indexes' = LET created == MgrCreateIndex(indexes, name, field_path)[2]
                      tree == CurrentTree(refs, commits, trees)
                  IN IF IsOk(tree) THEN RebuildAll(created, tree[2].entries) ELSE created
    /\ indexFile' = indexes'
    /\ last' = [ev |-> "create_index", name |-> name]
    /\ UNCHANGED <<refs, commits, trees, blocks, wal, bloomFile, bloom, next_tx, day, seq, op, reopens, tagVars, returned, limit, allocated, callerVars>>

\* drop_index: removes the index and saves indexes.json
DropIndex(name) ==
    /\ op.pc = "idle"
    /\ IsOk(MgrDropIndex(indexes, name))
    /\ indexes' = MgrDropIndex(indexes, name)[2]
    /\ indexFile' = indexes'
    /\ last' = [ev |-> "drop_index", name |-> name]
    /\ UNCHANGED <<refs, commits, trees, blocks, wal, bloomFile, bloom, next_tx, day, seq, op, reopens, tagVars, returned, limit, allocated, callerVars>>

\* ---------------------------------------------------------------- tags
\* load_tag_by_name: the tag files that carry the name (read_dir yields
\* them in no fixed order; the first that matches is returned)
TagsByName(tg, name) == {t \in tg : t.name = name}

\* the commit create_tag resolves its commit_id argument to
ResolveTagCommit(r, cs, commit_id) ==
    IF commit_id = None
    THEN LET hc == HeadCommit(r, cs) IN IF IsOk(hc) THEN Ok(hc[2].id) ELSE hc
    ELSE LET c == LoadCommit(cs, commit_id[1]) IN IF IsOk(c) THEN Ok(commit_id[1]) ELSE c

\* save_tag: tags/<id> is written (an existing file of that id is replaced)
SaveTag(tg, tag) == {t \in tg : t.id # tag.id} \cup {tag}

\* create_tag on thread t, up to where the tag is built: the name is in no
\* tag file and the commit resolves; a call that fails one of the two
\* returns the error and changes nothing
TagCheck(t, name, commit_id) ==
    /\ op.pc = "idle"
    /\ threadOp[t].pc = "idle"
    /\ TagsByName(tags, name) = {}
    /\ IsOk(ResolveTagCommit(refs, commits, commit_id))
    /\ threadOp' = [threadOp EXCEPT ![t] = [pc |-> "checked", name |-> name,
                                     commit_id |-> ResolveTagCommit(refs, commits, commit_id)[2]]]
    /\ last' = NoEvent
    /\ UNCHANGED <<refs, commits, trees, blocks, wal, bloomFile, bloom, next_tx, day, seq, op, reopens, idxVars, tags, returned, limit, allocated, callerVars>>

\* create_tag on thread t, the rest: Tag::new takes the time, save_tag
\* writes the file, the call returns Ok(tag)
TagSave(t) ==
    /\ threadOp[t].pc = "checked"
    /\ seq < limit.commits
    /\ seq' = seq + 1
    /\ LET tag == TagNew(threadOp[t].name, threadOp[t].commit_id, <<day, seq'>>)
       IN /\ tags' = SaveTag(tags, tag)
          /\ last' = [ev |-> "create_tag", tag |-> tag, pre_tags |-> tags]
    /\ threadOp' = [threadOp EXCEPT ![t] = ThreadIdle]
    /\ UNCHANGED <<refs, commits, trees, blocks, wal, bloomFile, bloom, next_tx, day, op, reopens, idxVars, returned, limit, allocated, callerVars>>

\* delete_tag: removes the file of the tag that get_tag found
DeleteTag(name) ==
    /\ op.pc = "idle"
    /\ \E tag \in TagsByName(tags, name) : tags' = tags \ {tag}
    /\ last' = [ev |-> "delete_tag", name |-> name]
    /\ UNCHANGED <<refs, commits, trees, blocks, wal, bloomFile, bloom, next_tx, day, seq, op, reopens, idxVars, threadOp, returned, limit, allocated, callerVars>>

\* ---------------------------------------------------------------- branches
\* create_branch: BranchExists when the name is in refs; copies the head id
\* when the current branch has one; saves refs either way
CreateBranch(name) ==
    /\ op.pc = "idle"
    /\ name \notin DOMAIN refs.branches
    /\ refs' = IF refs.head \in DOMAIN refs.branches
               THEN SetBranch(refs, name, refs.branches[refs.head])
               ELSE refs
    /\ last' = [ev |-> "create_branch", name |-> name,
                pending |-> refs.head \notin DOMAIN refs.branches,
                result |-> Ok("unit"), pre_refs |-> refs]
    /\ UNCHANGED <<commits, trees, blocks, wal, bloomFile, bloom, next_tx, day, seq, op, reopens, idxVars, tagVars, returned, limit, allocated, callerVars>>

\* create_branch of a name that refs.branches holds: the early return
CreateBranchRejected(name) ==
    /\ op.pc = "idle"
    /\ name \in DOMAIN refs.branches
    /\ last' = [ev |-> "create_branch", name |-> name, pending |-> FALSE,
                result |-> Err("BranchExists"), pre_refs |-> refs]
    /\ UNCHANGED <<refs, commits, trees, blocks, wal, bloomFile, bloom, next_tx, day, seq, op, reopens, idxVars, tagVars, returned, limit, allocated, callerVars>>

\* the names branches() lists
BranchNames(r) == DOMAIN r.branches \cup {r.head}

\* a checkout that takes every name
CheckoutAnyName(r, name) == TRUE

\* the test checkout makes before it rebinds head
CheckoutExists(r, name) ==
    \/ name \in DOMAIN r.branches
    \/ r.head = name
    \/ name \in BranchNames(r)

Checkout(name) ==
    /\ op.pc = "idle"
    /\ CheckoutExists(refs, name)
    /\ refs' = [refs EXCEPT !.head = name]
    /\ last' = [ev |-> "checkout", name |-> name]
    /\ UNCHANGED <<commits, trees, blocks, wal, bloomFile, bloom, next_tx, day, seq, op, reopens, idxVars, tagVars, returned, limit, allocated, callerVars>>

\* checkout of a name that is no branch: the early return
CheckoutRejected(name) ==
    /\ op.pc = "idle"
    /\ ~CheckoutExists(refs, name)
    /\ last' = [ev |-> "checkout_rejected", name |-> name,
                result |-> Err("BranchNotFound"), pre_refs |-> refs]
    /\ UNCHANGED <<refs, commits, trees, blocks, wal, bloomFile, bloom, next_tx, day, seq, op, reopens, idxVars, tagVars, returned, limit, allocated, callerVars>>

DeleteBranch(name) ==
    /\ op.pc = "idle"
    /\ refs.head # name
    /\ name \in DOMAIN refs.branches
    /\ refs' = [refs EXCEPT !.branches = [b \in DOMAIN refs.branches \ {name} |->
                                              refs.branches[b]]]
    /\ last' = NoEvent
    /\ UNCHANGED <<commits, trees, blocks, wal, bloomFile, bloom, next_tx, day, seq, op, reopens, idxVars, tagVars, returned, limit, allocated, callerVars>>

\* delete_branch on a thread, up to its write of refs: load_refs, the two
\* tests, and the removal from the loaded refs
TDeleteLoad(t, name) ==
    /\ op.pc = "idle"
    /\ threadOp[t].pc = "idle"
    /\ IF refs.head = name
       THEN /\ last' = [ev |-> "delete_branch", name |-> name,
                        result |-> Err("Corruption"), pre_refs |-> refs]
            /\ UNCHANGED threadOp
       ELSE IF name \notin DOMAIN refs.branches
       THEN /\ last' = [ev |-> "delete_branch", name |-> name,
                        result |-> Err("BranchNotFound"), pre_refs |-> refs]
            /\ UNCHANGED threadOp
       ELSE /\ threadOp' = [threadOp EXCEPT ![t] =
                    [pc |-> "delete_loaded", name |-> name,
                     refs |-> [refs EXCEPT !.branches =
                                  [b \in DOMAIN refs.branches \ {name} |-> refs.branches[b]]]]]
            /\ last' = NoEvent
    /\ UNCHANGED <<refs, commits, trees, blocks, wal, bloomFile, bloom, next_tx, day, seq, op, reopens, idxVars, tags, returned, limit, allocated, callerVars>>

\* self.save_refs(&refs) of delete_branch; pre_refs is the file it replaces
TDeleteSave(t) ==
    /\ threadOp[t].pc = "delete_loaded"
    /\ refs' = threadOp[t].refs
    /\ threadOp' = [threadOp EXCEPT ![t] = ThreadIdle]
    /\ last' = [ev |-> "delete_branch", name |-> threadOp[t].name,
                result |-> Ok("unit"), pre_refs |-> refs]
    /\ UNCHANGED <<commits, trees, blocks, wal, bloomFile, bloom, next_tx, day, seq, op, reopens, idxVars, tags, returned, limit, allocated, callerVars>>

\* ---------------------------------------------------------------- merge
\* load_commit(id).and_then(|c| load_tree(c.tree_root))
TreeOfCommit(cs, ts, id) ==
    LET c == LoadCommit(cs, id)
    IN IF IsOk(c) THEN LoadTree(ts, c[2].tree_root) ELSE c

\* the entries of current laid over those of source
MergeCurrentWins(current, source) ==
    {e \in source : ~HasKey(current, e[1])} \cup current

\* the entries of source laid over those of current
MergeEntries(current, source) ==
    {e \in current : ~HasKey(source, e[1])} \cup source

\* merge reads both trees and builds the merged tree; commit_tree follows
MergeStart(source_branch) ==
    /\ op.pc = "idle"
    /\ seq < limit.commits
    /\ source_branch \in DOMAIN refs.branches
    /\ LET st == TreeOfCommit(commits, trees, refs.branches[source_branch])
           merged == MergeEntries(CurrentTreeOrEmpty(refs, commits, trees).entries,
                                  st[2].entries)
       IN /\ IsOk(st)
          /\ op' = [name |-> "merge", pc |-> "logged",
                    tree |-> [root_hash |-> ComputeHash(Serialize(merged)),
                              entries |-> merged],
                    msg |-> <<"merge", source_branch>>,
                    pre |-> [refs |-> refs, source_branch |-> source_branch,
                             source |-> st[2].entries,
                             current |-> CurrentTreeOrEmpty(refs, commits, trees).entries]]
    /\ last' = NoEvent
    /\ UNCHANGED <<refs, commits, trees, blocks, wal, bloomFile, bloom, next_tx, day, seq, reopens, idxVars, tagVars, returned, limit, allocated, callerVars>>

\* ---------------------------------------------------------------- cherry_pick
RECURSIVE InsertAll(_, _, _)
\* for key in keys { if let Some(val) = from.get(key) { t = t.insert(key, val) } }
InsertAll(t, keys, from) ==
    IF keys = <<>> THEN t
    ELSE InsertAll(IF HasKey(from.entries, Head(keys))
                   THEN TreeInsert(t, Head(keys), ValueOf(from.entries, Head(keys)))
                   ELSE t,
                   Tail(keys), from)

RECURSIVE DeleteAll(_, _)
\* for key in keys { if t.contains_key(key) { t = t.delete(key) } }
DeleteAll(t, keys) ==
    IF keys = <<>> THEN t
    ELSE DeleteAll(IF HasKey(t.entries, Head(keys)) THEN TreeDelete(t, Head(keys)) ELSE t,
                   Tail(keys))

\* the commit's tree taken whole, in place of its diff applied to t
TakeCommitTree(t, parent_tree, commit_tree) == commit_tree

\* the diff applied without its removals
ApplyDiffNoRemove(t, parent_tree, commit_tree) ==
    LET diff == TreeDiff(parent_tree, commit_tree)
    IN InsertAll(InsertAll(t, diff.added, commit_tree), diff.modified, commit_tree)

\* apply the diff parent_tree -> commit_tree to the tree t
ApplyDiff(t, parent_tree, commit_tree) ==
    LET diff == TreeDiff(parent_tree, commit_tree)
    IN DeleteAll(InsertAll(InsertAll(t, diff.added, commit_tree),
                           diff.modified, commit_tree),
                 diff.removed)

\* the first eight characters of the id, which tell the few commits of a run apart
ShortId(id) == id

CherryPickStart(commit_id) ==
    /\ op.pc = "idle"
    /\ seq < limit.commits
    /\ CommitExists(commits, commit_id)
    /\ LET c == LoadCommit(commits, commit_id)[2]
           commit_tree == LoadTree(trees, c.tree_root)
           parent_tree == IF c.parent = None THEN Ok(TreeEmpty)
                          ELSE TreeOfCommit(commits, trees, c.parent[1])
       IN /\ IsOk(commit_tree)
          /\ IsOk(parent_tree)
          /\ op' = [name |-> "cherry_pick", pc |-> "logged",
                    tree |-> ApplyDiff(CurrentTreeOrEmpty(refs, commits, trees),
                                       parent_tree[2], commit_tree[2]),
                    msg |-> <<"cherry-pick", ShortId(commit_id)>>,
                    pre |-> [refs |-> refs,
                             current |-> CurrentTreeOrEmpty(refs, commits, trees).entries,
                             parent_tree |-> parent_tree[2],
                             commit_tree |-> commit_tree[2]]]
    /\ last' = NoEvent
    /\ UNCHANGED <<refs, commits, trees, blocks, wal, bloomFile, bloom, next_tx, day, seq, reopens, idxVars, tagVars, returned, limit, allocated, callerVars>>

\* ---------------------------------------------------------------- log
RECURSIVE LogFrom(_, _)
\* the parent walk of log(): newest first, an error at a missing commit
LogFrom(cs, id) ==
    LET c == LoadCommit(cs, id)
    IN IF ~IsOk(c) THEN c
       ELSE IF c[2].parent = None THEN Ok(<<c[2]>>)
       ELSE LET rest == LogFrom(cs, c[2].parent[1])
            IN IF IsOk(rest) THEN Ok(<<c[2]>> \o rest[2]) ELSE rest

Log(r, cs) ==
    IF r.head \in DOMAIN r.branches THEN LogFrom(cs, r.branches[r.head])
    ELSE Ok(<<>>)

RECURSIVE Walk(_, _, _)
\* the ancestor walk of rebase and compact: ids are added before they are
\* loaded; it stops at a visited id, a missing commit or parent None
Walk(cs, id, visited) ==
    IF id \in visited THEN visited
    ELSE LET c == LoadCommit(cs, id)
         IN IF IsOk(c) /\ c[2].parent # None
            THEN Walk(cs, c[2].parent[1], visited \cup {id})
            ELSE visited \cup {id}

\* ---------------------------------------------------------------- rebase
RECURSIVE TakeUnique(_, _)
\* the commits of the log before the first one that is in ancestors
TakeUnique(log, ancestors) ==
    IF log = <<>> \/ Head(log).id \in ancestors THEN <<>>
    ELSE <<Head(log)>> \o TakeUnique(Tail(log), ancestors)

\* the list left in the order log() gave it, newest first
KeepNewestFirst(s) == s

Reverse(s) == [i \in 1 .. Len(s) |-> s[Len(s) + 1 - i]]

UniqueCommits(r, cs, onto_branch) ==
    Reverse(TakeUnique(Log(r, cs)[2], Walk(cs, r.branches[onto_branch], {})))

\* rebase up to the start of the replay: nothing is written yet
\* for each commit to replay, the tree of its parent (the empty tree when
\* it has none or it does not load) and its own tree, as rebase reads them
ReplayInputs(cs, ts, unique_commits) ==
    [i \in 1 .. Len(unique_commits) |->
        LET c == unique_commits[i]
            pt == IF c.parent = None THEN Ok(TreeEmpty)
                  ELSE TreeOfCommit(cs, ts, c.parent[1])
            t == LoadTree(ts, c.tree_root)
        IN [parent |-> IF IsOk(pt) THEN pt[2].entries ELSE {},
            tree |-> IF IsOk(t) THEN t[2].entries ELSE {}]]

RebaseStart(onto_branch) ==
    /\ op.pc = "idle"
    /\ refs.head # onto_branch
    /\ onto_branch \in DOMAIN refs.branches
    /\ IsOk(Log(refs, commits))
    /\ UniqueCommits(refs, commits, onto_branch) # <<>>
    /\ seq + Len(UniqueCommits(refs, commits, onto_branch)) <= limit.commits
    /\ IsOk(TreeOfCommit(commits, trees, refs.branches[onto_branch]))
    /\ op' = [name |-> "rebase", pc |-> "rb_next",
              current_branch |-> refs.head,
              onto_branch |-> onto_branch,
              unique_commits |-> UniqueCommits(refs, commits, onto_branch),
              i |-> 1,
              tree |-> TreeOfCommit(commits, trees, refs.branches[onto_branch])[2],
              parent_id |-> Some(refs.branches[onto_branch]),
              new_commits |-> <<>>,
              pre |-> [refs |-> refs,
                       onto |-> TreeOfCommit(commits, trees,
                                             refs.branches[onto_branch])[2].entries,
                       replay |-> ReplayInputs(commits, trees,
                                      UniqueCommits(refs, commits, onto_branch))]]
    /\ last' = NoEvent
    /\ UNCHANGED <<refs, commits, trees, blocks, wal, bloomFile, bloom, next_tx, day, seq, reopens, idxVars, tagVars, returned, limit, allocated, callerVars>>

\* rebase when the unique list is empty: Ok(Vec::new()) before any write
RebaseNothing(onto_branch) ==
    /\ op.pc = "idle"
    /\ refs.head # onto_branch
    /\ onto_branch \in DOMAIN refs.branches
    /\ IsOk(Log(refs, commits))
    /\ UniqueCommits(refs, commits, onto_branch) = <<>>
    /\ last' = [ev |-> "rebase_nothing", onto_branch |-> onto_branch,
                result |-> Ok(<<>>), pre_refs |-> refs, pre_commits |-> commits]
    /\ UNCHANGED <<refs, commits, trees, blocks, wal, bloomFile, bloom, next_tx, day, seq, op, reopens, idxVars, tagVars, returned, limit, allocated, callerVars>>

\* rebase onto the current branch, or onto a name without a branch entry:
\* the two early returns
RebaseRejected(onto_branch) ==
    /\ op.pc = "idle"
    /\ refs.head = onto_branch \/ onto_branch \notin DOMAIN refs.branches
    /\ last' = [ev |-> "rebase_rejected", onto_branch |-> onto_branch,
                result |-> IF refs.head = onto_branch THEN Err("Corruption")
                           ELSE Err("BranchNotFound"),
                pre_refs |-> refs, pre_commits |-> commits]
    /\ UNCHANGED <<refs, commits, trees, blocks, wal, bloomFile, bloom, next_tx, day, seq, op, reopens, idxVars, tagVars, returned, limit, allocated, callerVars>>

\* one replay: the diff of the old commit is applied and the tree saved; a
\* missing old tree ends the rebase with an error
RbSaveTree ==
    /\ op.name = "rebase" /\ op.pc = "rb_next"
    /\ LET old_commit == op.unique_commits[op.i]
           old_tree == LoadTree(trees, old_commit.tree_root)
           opt == IF old_commit.parent = None THEN Ok(TreeEmpty)
                  ELSE TreeOfCommit(commits, trees, old_commit.parent[1])
           old_parent_tree == IF IsOk(opt) THEN opt[2] ELSE TreeEmpty
       IN IF IsOk(old_tree)
          THEN LET t == ApplyDiff(op.tree, old_parent_tree, old_tree[2])
               IN /\ trees' = SaveTree(trees, t)
                  /\ op' = [op EXCEPT !.tree = t, !.pc = "rb_tree_saved"]
          ELSE /\ trees' = trees
               /\ op' = Idle
    /\ last' = NoEvent
    /\ UNCHANGED <<refs, commits, blocks, wal, bloomFile, bloom, next_tx, day, seq, reopens, idxVars, tagVars, returned, limit, allocated, callerVars>>

RbSaveBlocks ==
    /\ op.name = "rebase" /\ op.pc = "rb_tree_saved"
    /\ blocks' = blocks \cup BlocksOf(op.tree)
    /\ op' = [op EXCEPT !.pc = "rb_blocks_saved"]
    /\ last' = NoEvent
    /\ UNCHANGED <<refs, commits, trees, wal, bloomFile, bloom, next_tx, day, seq, reopens, idxVars, tagVars, returned, limit, allocated, callerVars>>

RbSaveCommit ==
    /\ op.name = "rebase" /\ op.pc = "rb_blocks_saved"
    /\ seq' = seq + 1
    /\ LET c == CommitNew(op.parent_id, op.tree.root_hash,
                          op.unique_commits[op.i].message, <<day, seq'>>)
       IN /\ commits' = SaveCommit(commits, c)
          /\ op' = [op EXCEPT !.parent_id = Some(c.id),
                              !.new_commits = Append(@, c),
                              !.i = @ + 1,
                              !.pc = IF op.i = Len(op.unique_commits)
                                     THEN "rb_replayed" ELSE "rb_next"]
    /\ last' = NoEvent
    /\ UNCHANGED <<refs, trees, blocks, wal, bloomFile, bloom, next_tx, day, reopens, idxVars, tagVars, returned, limit, allocated, callerVars>>

\* the current branch (as read when rebase began) moves to the last new commit
RbSaveRefs ==
    /\ op.name = "rebase" /\ op.pc = "rb_replayed"
    /\ refs' = SetBranch(refs, op.current_branch,
                         op.new_commits[Len(op.new_commits)].id)
    /\ op' = Idle
    /\ last' = [ev |-> "rebase", new_commits |-> op.new_commits, pre |-> op.pre,
                onto_branch |-> op.onto_branch, unique_commits |-> op.unique_commits]
    /\ UNCHANGED <<commits, trees, blocks, wal, bloomFile, bloom, next_tx, day, seq, reopens, idxVars, tagVars, returned, limit, allocated, callerVars>>

\* ---------------------------------------------------------------- rebuild_bloom
RECURSIVE InsertKeys(_, _)
InsertKeys(bf, keys) ==
    IF keys = <<>> THEN bf ELSE InsertKeys(BloomInsert(bf, Head(keys)), Tail(keys))

RebuildBloom ==
    /\ op.pc = "idle"
    /\ bloom' = InsertKeys(BloomNew,
                    SelectSeq(KeySeq, LAMBDA k :
                        HasKey(CurrentTreeOrEmpty(refs, commits, trees).entries, k)))
    /\ bloomFile' = bloom'
    /\ last' = NoEvent
    /\ UNCHANGED <<refs, commits, trees, blocks, wal, next_tx, day, seq, op, reopens, idxVars, tagVars, returned, limit, allocated, callerVars>>

\* ---------------------------------------------------------------- compaction.rs
AgeDays(ts, today) == today - ts[1]

\* find_removable_commits that keeps one version more than max_versions
FindRemovableKeepOneMore(log, policy, today) ==
    LET should_remove(i) ==
            \/ policy.max_versions > 0 /\ i - 1 > policy.max_versions
            \/ /\ policy.max_age_days # None
               /\ AgeDays(log[i].timestamp, today) > policy.max_age_days[1]
        idx == SelectSeq([i \in 1 .. Len(log) |-> i], should_remove)
    IN [j \in 1 .. Len(idx) |-> log[idx[j]].id]

\* find_removable_commits: the ids to remove, in list order
FindRemovable(log, policy, today) ==
    LET should_remove(i) ==
            \/ policy.max_versions > 0 /\ i - 1 >= policy.max_versions
            \/ /\ policy.max_age_days # None
               /\ AgeDays(log[i].timestamp, today) > policy.max_age_days[1]
        idx == SelectSeq([i \in 1 .. Len(log) |-> i], should_remove)
    IN [j \in 1 .. Len(idx) |-> log[idx[j]].id]

Range(s) == {s[i] : i \in 1 .. Len(s)}

\* BloomFilter::insert on a filter the caller holds
FilterInsertCall(f, k) ==
    /\ filters[f].count < MaxFilterCount
    /\ filters' = [filters EXCEPT ![f] = FilterInsert(@, k)]
    /\ inserted' = [inserted EXCEPT ![f] = @ \cup {k}]
    /\ last' = [ev |-> "bloom_insert", filter |-> f, key |-> k]
    /\ UNCHANGED <<buckets, blockStore, locks, refs, commits, trees, blocks, wal, bloomFile, bloom, next_tx, day, seq, op, reopens, idxVars, tagVars, returned, limit, allocated>>

\* BloomFilter::merge of the filter g into the filter f
FilterMergeCall(f, g) ==
    LET merged == FilterMerge(filters[f], filters[g])
    IN /\ f # g
       /\ filters[f].count + filters[g].count <= MaxFilterCount
       /\ filters' = [filters EXCEPT ![f] = merged[1]]
       /\ inserted' = [inserted EXCEPT ![f] = IF merged[2] THEN @ \cup inserted[g] ELSE @]
       /\ last' = [ev |-> "bloom_merge", into |-> f, from |-> g, result |-> merged[2],
                   pre_inserted |-> inserted[f]]
       /\ UNCHANGED <<buckets, blockStore, locks, refs, commits, trees, blocks, wal, bloomFile, bloom, next_tx, day, seq, op, reopens, idxVars, tagVars, returned, limit, allocated>>

\* BlockStore::put of Block::new(data) on the store the caller holds
StorePutCall(data) ==
    /\ blockStore' = StorePut(blockStore, ComputeHash(data))
    /\ last' = [ev |-> "store_put", hash |-> ComputeHash(data)]
    /\ UNCHANGED <<filters, inserted, buckets, locks, refs, commits, trees, blocks, wal, bloomFile, bloom, next_tx, day, seq, op, reopens, idxVars, tagVars, returned, limit, allocated>>

\* BlockStore::contains and BlockStore::get on the store the caller holds:
\* both compute the block path first
StoreContainsCall(data) ==
    /\ blockStore' = StoreContains(blockStore, ComputeHash(data))[1]
    /\ last' = [ev |-> "store_contains", hash |-> ComputeHash(data),
                result |-> StoreContains(blockStore, ComputeHash(data))[2]]
    /\ UNCHANGED <<filters, inserted, buckets, locks, refs, commits, trees, blocks, wal, bloomFile, bloom, next_tx, day, seq, op, reopens, idxVars, tagVars, returned, limit, allocated>>

\* a thread enters an operation: what is left of it is its lock plan
LockCall(t, name) ==
    /\ threadOp[t].pc = "idle"
    /\ threadOp' = [threadOp EXCEPT ![t] = [pc |-> "locks", name |-> name,
                                            todo |-> LockPlan(name)]]
    /\ last' = NoEvent
    /\ UNCHANGED <<refs, commits, trees, blocks, wal, bloomFile, bloom, next_tx, day, seq, op, reopens, idxVars, tags, returned, limit, allocated, callerVars>>

\* what the thread does when its next point is reached
LockAdvance(t) ==
    /\ threadOp' = [threadOp EXCEPT ![t] =
                       IF Len(@.todo) = 1 THEN ThreadIdle
                       ELSE [pc |-> "locks", name |-> @.name, todo |-> Tail(@.todo)]]
    /\ last' = NoEvent
    /\ UNCHANGED <<filters, inserted, buckets, blockStore, refs, commits, trees, blocks, wal, bloomFile, bloom, next_tx, day, seq, op, reopens, idxVars, tags, returned, limit, allocated>>

\* mutex.lock(): the thread goes on when the mutex is free
LockAcquire(t) ==
    /\ threadOp[t].pc = "locks"
    /\ Head(threadOp[t].todo)[1] = "lock"
    /\ locks[Head(threadOp[t].todo)[2]] = None
    /\ locks' = [locks EXCEPT ![Head(threadOp[t].todo)[2]] = Some(t)]
    /\ LockAdvance(t)

\* the guard goes out of scope
LockRelease(t) ==
    /\ threadOp[t].pc = "locks"
    /\ Head(threadOp[t].todo)[1] = "drop"
    /\ locks' = [locks EXCEPT ![Head(threadOp[t].todo)[2]] = None]
    /\ LockAdvance(t)

\* the lists of pairs rebuild_all is called with directly
RebuildInputs ==
    {<<>>} \cup {<<p>> : p \in IdxPutInputs} \cup {<<p, q>> : p, q \in IdxPutInputs}

\* SecondaryIndex::index_entry on an index the caller holds
BucketsIndexEntryCall(n, primary_key, value) ==
    /\ buckets' = [buckets EXCEPT ![n].entries =
                      BucketsIndexEntry(buckets[n].field_path, @, primary_key, value)]
    /\ last' = [ev |-> "index_entry", index |-> n, key |-> primary_key,
                value |-> value, pre_entries |-> buckets[n].entries]
    /\ UNCHANGED <<filters, inserted, blockStore, locks, refs, commits, trees, blocks, wal, bloomFile, bloom, next_tx, day, seq, op, reopens, idxVars, tagVars, returned, limit, allocated>>

\* SecondaryIndex::remove_key on an index the caller holds
BucketsRemoveKeyCall(n, primary_key) ==
    /\ buckets' = [buckets EXCEPT ![n].entries = BucketsRemoveKey(@, primary_key)]
    /\ last' = [ev |-> "remove_key", index |-> n, key |-> primary_key,
                pre_entries |-> buckets[n].entries]
    /\ UNCHANGED <<filters, inserted, blockStore, locks, refs, commits, trees, blocks, wal, bloomFile, bloom, next_tx, day, seq, op, reopens, idxVars, tagVars, returned, limit, allocated>>

\* IndexManager::rebuild_all on the manager the caller holds
BucketsRebuildAllCall(pairs) ==
    /\ buckets' = [n \in DOMAIN buckets |->
                      [buckets[n] EXCEPT !.entries =
                          BucketsIndexAll(buckets[n].field_path, NoBuckets, pairs, 1)]]
    /\ last' = [ev |-> "rebuild_all", pairs |-> pairs]
    /\ UNCHANGED <<filters, inserted, blockStore, locks, refs, commits, trees, blocks, wal, bloomFile, bloom, next_tx, day, seq, op, reopens, idxVars, tagVars, returned, limit, allocated>>

\* find_removable_commits called with the current branch's log (newest
\* first), a policy and the current time
PlanRemovable(policy) ==
    /\ op.pc = "idle"
    /\ IsOk(Log(refs, commits))
    /\ last' = [ev |-> "plan", log |-> Log(refs, commits)[2], policy |-> policy,
                today |-> day,
                removable |-> FindRemovable(Log(refs, commits)[2], policy, day)]
    /\ UNCHANGED <<refs, commits, trees, blocks, wal, bloomFile, bloom, next_tx, day, seq, op, reopens, idxVars, tagVars, returned, limit, allocated, callerVars>>

\* ---------------------------------------------------------------- compact
\* the commits reachable from the heads of the given branches
ReachableFrom(r, cs, names) ==
    UNION {Walk(cs, r.branches[b], {}) : b \in names}

\* compact on the files as they are: the commit and tree files afterwards
CompactResult(r, cs, ts, policy, today) ==
    LET log == Log(r, cs)[2]
        removable == Range(FindRemovable(log, policy, today))
        keep_commit_ids == {c.id : c \in Range(log)} \ removable
        all_reachable_commits == ReachableFrom(r, cs, DOMAIN r.branches)
        reachable_trees ==
            {LoadCommit(cs, cid)[2].tree_root :
                cid \in {x \in all_reachable_commits :
                            /\ ~(x \in removable /\ x \notin keep_commit_ids)
                            /\ CommitExists(cs, x)}}
        removed == {cid \in removable :
                        /\ ~(cid \in all_reachable_commits /\ cid \in keep_commit_ids)
                        /\ CommitExists(cs, cid)}
        after_remove == {c \in cs : c.id \notin removed}
        kept_commits == SelectSeq(log, LAMBDA c : c.id \notin removable)
        oldest_kept == kept_commits[Len(kept_commits)]
        fixed == IF /\ removed # {}
                    /\ kept_commits # <<>>
                    /\ oldest_kept.parent # None
                    /\ ~CommitExists(after_remove, oldest_kept.parent[1])
                 THEN SaveCommit(after_remove, [oldest_kept EXCEPT !.parent = None])
                 ELSE after_remove
    IN [removable |-> removable,
        commits |-> fixed,
        trees |-> {t \in ts : t.root_hash \in reachable_trees}]

\* compact(policy) with a non-empty removable list (it returns at once with
\* an error when log() fails and with an empty result when nothing is removable)
Compact(policy) ==
    /\ op.pc = "idle"
    /\ IsOk(Log(refs, commits))
    /\ LET res == CompactResult(refs, commits, trees, policy, day)
       IN /\ res.removable # {}
          /\ commits' = res.commits
          /\ trees' = res.trees
          /\ last' = [ev |-> "compact",
                      shared |-> res.removable \cap
                          ReachableFrom(refs, commits, DOMAIN refs.branches \ {refs.head}),
                      pre_head |-> refs.branches[refs.head],
                      pre_get |-> [k \in Keys |-> Get(k)]]
    /\ UNCHANGED <<refs, blocks, wal, bloomFile, bloom, next_tx, day, seq, op, reopens, idxVars, tagVars, returned, limit, allocated, callerVars>>

\* ---------------------------------------------------------------- open
\* The process stops (a clean close when no operation is in flight, a crash
\* otherwise) and Database::open runs on the files as they are: Wal::open,
\* load_bloom_from, load_indexes_from, recover_wal (which truncates the WAL).
Reopen ==
    /\ reopens < limit.reopens
    /\ reopens' = reopens + 1
    /\ next_tx' = WalOpenNextTx(wal)
    /\ bloom' = bloomFile
    /\ indexes' = indexFile
    /\ wal' = WalTruncate(wal)
    /\ op' = Idle
    /\ threadOp' = [t \in Threads |-> ThreadIdle]
    /\ last' = [ev |-> "reopen", crashed |-> op,
                prev |-> IF last.ev = "put" THEN last ELSE NoEvent]
    /\ UNCHANGED <<refs, commits, trees, blocks, bloomFile, day, seq, indexFile, tags, returned, limit, allocated, callerVars>>

CloseReopen == op.pc = "idle" /\ Reopen

CrashReopen == op.pc # "idle" /\ Reopen

\* ---------------------------------------------------------------- specifications
\* the operations on one open handle that create commits and move branches
NextCore ==
    \/ \E kv \in PutInputs : PutBegin(kv[1], kv[2])
    \/ PutLogWrite
    \/ \E k \in Keys : DeleteBegin(k)
    \/ DeleteLog
    \/ CtSaveTree
    \/ CtSaveBlocks
    \/ CtSaveCommit
    \/ CtSaveRefs
    \/ WalCommitStep
    \/ PutBloom
    \/ PutIndex
    \/ DeleteIndex
    \/ \E b \in Branches : CreateBranch(b)
    \/ \E b \in Branches : Checkout(b)
    \/ \E b \in Branches : MergeStart(b)
    \/ \E c \in commits : CherryPickStart(c.id)
    \/ \E b \in Branches : RebaseStart(b)
    \/ RbSaveTree
    \/ RbSaveBlocks
    \/ RbSaveCommit
    \/ RbSaveRefs

NextOps ==
    \/ NextCore
    \/ RebuildBloom

Next ==
    \/ NextOps
    \/ \E kv \in IdxPutInputs : PutBegin(kv[1], kv[2])
    \/ \E d \in IndexDefs : CreateIndex(d[1], d[2])
    \/ \E n \in IndexNames : DropIndex(n)
    \/ \E t \in Threads, n \in TagNames, c \in commits : TagCheck(t, n, Some(c.id))
    \/ \E t \in Threads, n \in TagNames : TagCheck(t, n, None)
    \/ \E t \in Threads : TagSave(t)
    \/ \E n \in TagNames : DeleteTag(n)
    \/ \E t \in Threads : \E kv \in ThreadPuts(t) : TPutWal(t, kv[1], kv[2])
    \/ \E t \in Threads : TPutBuild(t)
    \/ \E t \in Threads : TPutSaveTree(t)
    \/ \E t \in Threads : TPutSaveCommit(t)
    \/ \E t \in Threads : TPutSaveRefs(t)
    \/ \E t \in Threads : TPutWalCommit(t)
    \/ \E t \in Threads : TPutBloom(t)
    \/ \E t \in Threads : TPutIndex(t)
    \/ WalApiBegin
    \/ \E e \in WalApiEntries : WalApiLog(e)
    \/ WalApiRecover
    \/ \E b \in Branches : DeleteBranch(b)
    \/ \E t \in Threads, b \in Branches : TDeleteLoad(t, b)
    \/ \E t \in Threads : TDeleteSave(t)
    \/ \E b \in Branches : CreateBranchRejected(b)
    \/ \E b \in Branches : RebaseNothing(b)
    \/ \E b \in Branches : RebaseRejected(b)
    \/ CtIoError
    \/ \E k \in Keys : DeleteRejected(k)
    \/ \E t \in Threads, name \in LockOps : LockCall(t, name)
    \/ \E t \in Threads : LockAcquire(t)
    \/ \E t \in Threads : LockRelease(t)
    \/ \E t \in Threads : \E kv \in ThreadPuts(t) : TDelWal(t, kv[1])
    \/ \E t \in Threads : TDelIndex(t)
    \/ \E b \in Branches : CheckoutRejected(b)
    \/ \E d \in BlockData : StorePutCall(d)
    \/ \E d \in BlockData : StoreContainsCall(d)
    \/ \E n \in IndexNames, kv \in IdxPutInputs : BucketsIndexEntryCall(n, kv[1], kv[2])
    \/ \E n \in IndexNames, k \in Keys : BucketsRemoveKeyCall(n, k)
    \/ \E pairs \in RebuildInputs : BucketsRebuildAllCall(pairs)
    \/ \E p \in Policies : Compact(p)
    \/ \E p \in PlannerPolicies : PlanRemovable(p)
    \/ \E f \in FilterNames, k \in Keys : FilterInsertCall(f, k)
    \/ \E f, g \in FilterNames : FilterMergeCall(f, g)
    \/ Tick
    \/ CloseReopen
    \/ CrashReopen

Spec == Init /\ [][Next]_vars

\* put, delete, the branch operations, merge, cherry_pick and rebase
SpecCore == InitCore /\ [][NextCore]_vars

SpecOps == InitLong /\ [][NextOps]_vars

\* the same operations with the process stopping and reopening the database
NextCrash ==
    \/ NextOps
    \/ CloseReopen
    \/ CrashReopen

SpecCrash == InitLong /\ [][NextCrash]_vars

\* put, delete, create_branch, checkout and rebase
NextRebase ==
    \/ \E kv \in PutInputs : PutBegin(kv[1], kv[2])
    \/ PutLogWrite
    \/ \E k \in Keys : DeleteBegin(k)
    \/ DeleteLog
    \/ CtSaveTree
    \/ CtSaveBlocks
    \/ CtSaveCommit
    \/ CtSaveRefs
    \/ WalCommitStep
    \/ PutBloom
    \/ PutIndex
    \/ DeleteIndex
    \/ \E b \in Branches : CreateBranch(b)
    \/ \E b \in Branches : Checkout(b)
    \/ \E b \in Branches : RebaseStart(b)
    \/ RbSaveTree
    \/ RbSaveBlocks
    \/ RbSaveCommit
    \/ RbSaveRefs
    \/ \E b \in Branches : RebaseNothing(b)
    \/ \E b \in Branches : RebaseRejected(b)

SpecRebase == Init /\ [][NextRebase]_vars

\* put and delete of JSON and other values, create_index and drop_index
NextIdx ==
    \/ \E kv \in IdxPutInputs : PutBegin(kv[1], kv[2])
    \/ PutLogWrite
    \/ \E k \in Keys : DeleteBegin(k)
    \/ DeleteLog
    \/ CtSaveTree
    \/ CtSaveBlocks
    \/ CtSaveCommit
    \/ CtSaveRefs
    \/ WalCommitStep
    \/ PutBloom
    \/ PutIndex
    \/ DeleteIndex
    \/ \E d \in IndexDefs : CreateIndex(d[1], d[2])
    \/ \E n \in IndexNames : DropIndex(n)

SpecIdx == InitLong /\ [][NextIdx]_vars

\* the same with the deletes that are rejected
NextDelete ==
    \/ NextIdx
    \/ \E k \in Keys : DeleteRejected(k)

SpecDelete == InitLong /\ [][NextDelete]_vars

\* the same with the branch operations, merge, cherry_pick and rebase
NextIdxOps ==
    \/ \E kv \in IdxPutInputs : PutBegin(kv[1], kv[2])
    \/ PutLogWrite
    \/ \E k \in Keys : DeleteBegin(k)
    \/ DeleteLog
    \/ CtSaveTree
    \/ CtSaveBlocks
    \/ CtSaveCommit
    \/ CtSaveRefs
    \/ WalCommitStep
    \/ PutBloom
    \/ PutIndex
    \/ DeleteIndex
    \/ \E b \in Branches : CreateBranch(b)
    \/ \E b \in Branches : Checkout(b)
    \/ \E b \in Branches : MergeStart(b)
    \/ \E c \in commits : CherryPickStart(c.id)
    \/ \E b \in Branches : RebaseStart(b)
    \/ RbSaveTree
    \/ RbSaveBlocks
    \/ RbSaveCommit
    \/ RbSaveRefs
    \/ \E d \in IndexDefs : CreateIndex(d[1], d[2])
    \/ \E n \in IndexNames : DropIndex(n)

SpecIdxOps == InitLong /\ [][NextIdxOps]_vars

\* put and delete, and create_tag called on two threads and delete_tag
NextTag ==
    \/ \E kv \in PutInputs : PutBegin(kv[1], kv[2])
    \/ PutLogWrite
    \/ \E k \in Keys : DeleteBegin(k)
    \/ DeleteLog
    \/ CtSaveTree
    \/ CtSaveBlocks
    \/ CtSaveCommit
    \/ CtSaveRefs
    \/ WalCommitStep
    \/ PutBloom
    \/ PutIndex
    \/ DeleteIndex
    \/ \E t \in Threads, n \in TagNames, c \in commits : TagCheck(t, n, Some(c.id))
    \/ \E t \in Threads, n \in TagNames : TagCheck(t, n, None)
    \/ \E t \in Threads : TagSave(t)
    \/ \E n \in TagNames : DeleteTag(n)

SpecTag == InitLong /\ [][NextTag]_vars

\* put called on two threads of the one handle
NextThreads ==
    \/ \E t \in Threads : \E kv \in ThreadPuts(t) : TPutWal(t, kv[1], kv[2])
    \/ \E t \in Threads : TPutBuild(t)
    \/ \E t \in Threads : TPutSaveTree(t)
    \/ \E t \in Threads : TPutSaveCommit(t)
    \/ \E t \in Threads : TPutSaveRefs(t)
    \/ \E t \in Threads : TPutWalCommit(t)
    \/ \E t \in Threads : TPutBloom(t)
    \/ \E t \in Threads : TPutIndex(t)

SpecThreads == InitLong /\ [][NextThreads]_vars

\* put and delete called on threads that share the handle
NextThreadsWal ==
    \/ NextThreads
    \/ \E t \in Threads : \E kv \in ThreadPuts(t) : TDelWal(t, kv[1])
    \/ \E t \in Threads : TDelIndex(t)

SpecThreadsWal == InitLong /\ [][NextThreadsWal]_vars

\* create_branch and checkout called while no thread is inside a call
NoThreadCall == \A t \in Threads : threadOp[t].pc = "idle"
CreateBranchCall(name) == NoThreadCall /\ CreateBranch(name)
CheckoutCall(name) == NoThreadCall /\ Checkout(name)

\* put on one thread and delete_branch on another thread that shares the
\* handle, with create_branch and checkout between the calls
NextThreadBranch ==
    \/ \E kv \in ThreadPuts("t1") : TPutWal("t1", kv[1], kv[2])
    \/ TPutBuild("t1")
    \/ TPutSaveTree("t1")
    \/ TPutSaveCommit("t1")
    \/ TPutSaveRefs("t1")
    \/ TPutWalCommit("t1")
    \/ TPutBloom("t1")
    \/ TPutIndex("t1")
    \/ \E b \in Branches : CreateBranchCall(b)
    \/ \E b \in Branches : CheckoutCall(b)
    \/ \E b \in Branches : TDeleteLoad("t2", b)
    \/ TDeleteSave("t2")

SpecThreadBranch == InitLong /\ [][NextThreadBranch]_vars

\* the same calls made by one thread, one at a time
NextBranchSeq ==
    \/ \E kv \in ThreadPuts("t1") : TPutWal("t1", kv[1], kv[2])
    \/ TPutBuild("t1")
    \/ TPutSaveTree("t1")
    \/ TPutSaveCommit("t1")
    \/ TPutSaveRefs("t1")
    \/ TPutWalCommit("t1")
    \/ TPutBloom("t1")
    \/ TPutIndex("t1")
    \/ \E b \in Branches : CreateBranchCall(b)
    \/ \E b \in Branches : CheckoutCall(b)
    \/ \E b \in Branches : TDeleteLoad("t1", b)
    \/ TDeleteSave("t1")

SpecBranchSeq == InitLong /\ [][NextBranchSeq]_vars

\* put, create_branch, checkout and delete_branch on one handle, one call
\* at a time, with the calls that are rejected
NextBranches ==
    \/ \E kv \in PutInputs : PutBegin(kv[1], kv[2])
    \/ PutLogWrite
    \/ CtSaveTree
    \/ CtSaveBlocks
    \/ CtSaveCommit
    \/ CtSaveRefs
    \/ WalCommitStep
    \/ PutBloom
    \/ PutIndex
    \/ \E b \in Branches : CreateBranch(b)
    \/ \E b \in Branches : CreateBranchRejected(b)
    \/ \E b \in Branches : Checkout(b)
    \/ \E b \in Branches : DeleteBranch(b)

SpecBranches == InitLong /\ [][NextBranches]_vars

\* every operation that writes refs, and the rejected checkout
NextHead ==
    \/ NextCore
    \/ \E b \in Branches : DeleteBranch(b)
    \/ \E b \in Branches : CheckoutRejected(b)

SpecHead == InitLong /\ [][NextHead]_vars

\* put and delete on one handle, with file writes that fail
NextIoError ==
    \/ \E kv \in PutInputs : PutBegin(kv[1], kv[2])
    \/ PutLogWrite
    \/ \E k \in Keys : DeleteBegin(k)
    \/ DeleteLog
    \/ CtSaveTree
    \/ CtSaveBlocks
    \/ CtSaveCommit
    \/ CtSaveRefs
    \/ CtIoError
    \/ WalCommitStep
    \/ PutBloom
    \/ PutIndex
    \/ DeleteIndex

SpecIoError == InitLong /\ [][NextIoError]_vars

\* put and delete with the process stopping and reopening the database
NextWal ==
    \/ \E kv \in PutInputs : PutBegin(kv[1], kv[2])
    \/ PutLogWrite
    \/ \E k \in Keys : DeleteBegin(k)
    \/ DeleteLog
    \/ CtSaveTree
    \/ CtSaveBlocks
    \/ CtSaveCommit
    \/ CtSaveRefs
    \/ WalCommitStep
    \/ PutBloom
    \/ PutIndex
    \/ DeleteIndex
    \/ CloseReopen
    \/ CrashReopen

SpecWal == InitWal /\ [][NextWal]_vars

\* the Wal called directly: begin, log_write, commit, rollback, recover
NextWalApi ==
    \/ WalApiBegin
    \/ \E e \in WalApiEntries : WalApiLog(e)
    \/ WalApiRecover

SpecWalApi == InitLong /\ [][NextWalApi]_vars

\* the operations that take a mutex, called on threads that share the
\* handle; a thread that waits for a free mutex gets it in the end
NextLocks ==
    \/ \E t \in Threads, name \in LockOps : LockCall(t, name)
    \/ \E t \in Threads : LockAcquire(t)
    \/ \E t \in Threads : LockRelease(t)

SpecLocks ==
    /\ InitLong
    /\ [][NextLocks]_vars
    /\ \A t \in Threads : SF_vars(LockAcquire(t)) /\ WF_vars(LockRelease(t))

\* put, contains and get called on a block store directly
NextStore ==
    \/ \E d \in BlockData : StorePutCall(d)
    \/ \E d \in BlockData : StoreContainsCall(d)

SpecStore == InitLong /\ [][NextStore]_vars

\* index_entry, remove_key and rebuild_all called directly
NextBuckets ==
    \/ \E n \in IndexNames, kv \in IdxPutInputs : BucketsIndexEntryCall(n, kv[1], kv[2])
    \/ \E n \in IndexNames, k \in Keys : BucketsRemoveKeyCall(n, k)
    \/ \E pairs \in RebuildInputs : BucketsRebuildAllCall(pairs)

SpecBuckets == InitLong /\ [][NextBuckets]_vars

\* insert and merge on bloom filters called directly
NextBloom ==
    \/ \E f \in FilterNames, k \in Keys : FilterInsertCall(f, k)
    \/ \E f, g \in FilterNames : FilterMergeCall(f, g)

SpecBloom == InitBloom /\ [][NextBloom]_vars

\* put over passing days, and find_removable_commits called on the log
NextPlanner ==
    \/ \E kv \in PutInputs : PutBegin(kv[1], kv[2])
    \/ PutLogWrite
    \/ CtSaveTree
    \/ CtSaveBlocks
    \/ CtSaveCommit
    \/ CtSaveRefs
    \/ WalCommitStep
    \/ PutBloom
    \/ PutIndex
    \/ Tick
    \/ \E p \in PlannerPolicies : PlanRemovable(p)

SpecPlanner == InitLong /\ [][NextPlanner]_vars

\* the same operations with branch deletion, compaction and passing days
NextGc ==
    \/ NextCore
    \/ \E b \in Branches : DeleteBranch(b)
    \/ \E p \in Policies : Compact(p)
    \/ Tick

SpecGc == InitLong /\ [][NextGc]_vars

\* ---------------------------------------------------------------- properties
\* the database was just reopened after the process died inside a put
\* whose progress was one of pcs
ReopenedAfterPutAt(pcs) ==
    /\ last.ev = "reopen"
    /\ last.crashed.name = "put"
    /\ last.crashed.pc \in pcs

\* C1: a put that died after its WAL Write record and before its WAL Commit
\* record leaves, once the database is reopened, the refs and the current
\* tree as they were before the put, and an empty WAL.
C1_CrashBeforeWalCommit ==
    ReopenedAfterPutAt({"logged", "tree_saved", "blocks_saved",
                        "commit_saved", "refs_saved"})
        => /\ refs = last.crashed.pre_refs
           /\ CurrentTree(refs, commits, trees) = last.crashed.pre_tree
           /\ wal = <<>>

\* C2: once put(key, value) has appended its WAL Commit record, a stop at
\* any later point of the put (a crash before the bloom file or the index
\* file is written, or a clean close after the put returned) and a reopen
\* leave get(key) = value.
C2_DurableAfterWalCommit ==
    /\ ReopenedAfterPutAt({"committed", "bloom_saved"})
           => Get(last.crashed.key) = Ok(last.crashed.value)
    /\ (last.ev = "reopen" /\ last.crashed.name = "idle" /\ last.prev.ev = "put")
           => Get(last.prev.key) = Ok(last.prev.value)

\* the lookup of a key in the head tree of the current branch
TreeLookup(k) ==
    LET t == CurrentTree(refs, commits, trees)[2]
    IN IF HasKey(t.entries, k) THEN Ok(ValueOf(t.entries, k)) ELSE Err("KeyNotFound")

\* C3: after any sequence of put, delete, create_branch, checkout, merge,
\* cherry_pick, rebase and rebuild_bloom, get(key) is the lookup of key in
\* the current branch's head tree, for every key.
C3_BloomNeverHidesKey ==
    (op.pc = "idle" /\ IsOk(CurrentTree(refs, commits, trees)))
        => \A k \in Keys : Get(k) = TreeLookup(k)

\* C4: after compact, every branch in refs names a commit record on disk.
C4_CompactKeepsBranchHeads ==
    last.ev = "compact"
        => \A b \in DOMAIN refs.branches : CommitExists(commits, refs.branches[b])

\* C5: after compact, every commit that the policy marked removable and
\* that some other branch's ancestor walk reached is still on disk.
C5_CompactKeepsSharedCommits ==
    last.ev = "compact" => \A id \in last.shared : CommitExists(commits, id)

\* C6: after compact, get(key) is what it was before for every key, and the
\* current branch names the same head commit.
C6_CompactKeepsCurrentContents ==
    last.ev = "compact"
        => /\ \A k \in Keys : Get(k) = last.pre_get[k]
           /\ refs.head \in DOMAIN refs.branches
           /\ refs.branches[refs.head] = last.pre_head

\* C7: after compact, the parent walk of log() from every branch head ends
\* at a commit with parent None without meeting a missing commit.
C7_CompactLogSucceeds ==
    last.ev = "compact"
        => \A b \in DOMAIN refs.branches : IsOk(LogFrom(commits, refs.branches[b]))

\* C8: after compact, every commit record on disk has its tree on disk.
C8_CompactKeepsTreesOfCommits ==
    last.ev = "compact" => \A c \in commits : TreeExists(trees, c.tree_root)

\* C9 (I1): every Commit record in the WAL names a commit that is on disk and
\* on the parent walk from some branch head.
C9_WalCommitResolvable ==
    \A i \in 1 .. Len(wal) :
        wal[i].type = "Commit"
            => /\ CommitExists(commits, wal[i].commit_id)
               /\ wal[i].commit_id \in ReachableFrom(refs, commits, DOMAIN refs.branches)

\* C10: at every intermediate point of put, delete, merge, cherry_pick and
\* rebase, every branch in refs names a commit that is on disk with its tree.
C10_RefsResolveMidOperation ==
    (op.pc # "idle" /\ op.name \in {"put", "delete", "merge", "cherry_pick", "rebase"})
        => \A b \in DOMAIN refs.branches :
              /\ CommitExists(commits, refs.branches[b])
              /\ IsOk(TreeOfCommit(commits, trees, refs.branches[b]))

\* C11: create_branch(name) on a current branch without commits leaves name
\* listed by branches() and accepted by checkout(name).
C11_PendingBranchListed ==
    (last.ev = "create_branch" /\ last.pending)
        => /\ last.name \in BranchNames(refs)
           /\ CheckoutExists(refs, last.name)

\* C12: between operations, for every key that the current branch's tree
\* does not hold (a branch without commits holds no key), get(key) and
\* delete(key) both fail with KeyNotFound.
C12_MissingKeyIsKeyNotFound ==
    op.pc = "idle"
        => \A k \in Keys :
              ~HasKey(CurrentTreeOrEmpty(refs, commits, trees).entries, k)
                  => /\ Get(k) = Err("KeyNotFound")
                     /\ DeleteCheck(refs, commits, trees, k) = Err("KeyNotFound")

\* Database::get_at
GetAt(cs, ts, k, commit_id) ==
    LET t == TreeOfCommit(cs, ts, commit_id)
    IN IF ~IsOk(t) THEN t
       ELSE IF HasKey(t[2].entries, k) THEN Ok(ValueOf(t[2].entries, k))
       ELSE Err("KeyNotFound")

\* C13: for every commit id that put or delete returned, at every later
\* point of a run of put, delete, create_branch, checkout, merge, cherry_pick
\* and rebase, tree_at(id) is the tree that was committed and get_at(key, id)
\* is its lookup of key.
C13_SnapshotImmutable ==
    \A r \in returned :
        /\ TreeOfCommit(commits, trees, r[1]) = Ok(MkTree(r[2]))
        /\ \A k \in Keys :
              GetAt(commits, trees, k, r[1]) =
                  IF HasKey(r[2], k) THEN Ok(ValueOf(r[2], k)) ELSE Err("KeyNotFound")

\* C13 witness: a rebase has just left a returned commit behind (no branch
\* reaches it any more) and the current tree differs from the one it recorded.
C13_Witness ==
    /\ last.ev = "rebase"
    /\ \E r \in returned :
          /\ r[1] \notin ReachableFrom(refs, commits, DOMAIN refs.branches)
          /\ CurrentTree(refs, commits, trees)[2].entries # r[2]

\* the operations of C14
WriteOps == {"put", "delete", "merge", "cherry_pick"}

\* C14: every step of put, delete, merge and cherry_pick leaves head as it
\* is, adds no branch other than the current one, and leaves every other
\* branch with the same head commit id and the same tree.
C14_BranchIsolation ==
    [][(op.name \in WriteOps \/ op'.name \in WriteOps)
          => /\ refs'.head = refs.head
             /\ DOMAIN refs'.branches \subseteq DOMAIN refs.branches \cup {refs.head}
             /\ \A b \in DOMAIN refs.branches \ {refs.head} :
                   /\ b \in DOMAIN refs'.branches
                   /\ refs'.branches[b] = refs.branches[b]
                   /\ TreeOfCommit(commits', trees', refs'.branches[b])
                          = TreeOfCommit(commits, trees, refs.branches[b])]_vars

\* C14 witness: a put, delete, merge or cherry_pick has just returned on a
\* branch while another branch names a different commit with another tree.
C14_Witness ==
    /\ last.ev \in WriteOps
    /\ \E b \in DOMAIN refs.branches \ {refs.head} :
          /\ refs.branches[b] # refs.branches[refs.head]
          /\ TreeOfCommit(commits, trees, refs.branches[b])
                 # CurrentTree(refs, commits, trees)

\* the entries of the tree that the commit of the last event names
CommittedEntries == TreeOfCommit(commits, trees, last.commit.id)[2].entries

\* the head of the current branch before the last event, as an Option
PreviousHead ==
    IF last.pre.refs.head \in DOMAIN last.pre.refs.branches
    THEN Some(last.pre.refs.branches[last.pre.refs.head])
    ELSE None

\* merge(source) made the tree in which source wins, in a commit on the
\* current branch whose parent is the previous current head
MergeSourceWins ==
    /\ IsOk(TreeOfCommit(commits, trees, last.commit.id))
    /\ KeysOf(CommittedEntries) = KeysOf(last.pre.source) \cup KeysOf(last.pre.current)
    /\ \A k \in KeysOf(CommittedEntries) :
          ValueOf(CommittedEntries, k) =
              IF HasKey(last.pre.source, k) THEN ValueOf(last.pre.source, k)
              ELSE ValueOf(last.pre.current, k)
    /\ refs.head = last.pre.refs.head
    /\ refs.branches[refs.head] = last.commit.id
    /\ last.commit.parent = PreviousHead

\* C15 as stated: after merge(source) the merged tree has source winning,
\* the new commit is on the current branch with the previous head as parent,
\* and the source branch's ref is what it was.
C15_MergeAsStated ==
    last.ev = "merge"
        => /\ MergeSourceWins
           /\ refs.branches[last.pre.source_branch]
                  = last.pre.refs.branches[last.pre.source_branch]

\* C15 amended: the same, the source branch's ref being what it was when
\* the source is another branch than the current one; merge of the current
\* branch into itself moves that branch to the new commit.
C15_MergeSourceRefKept ==
    last.ev = "merge"
        => /\ MergeSourceWins
           /\ last.pre.source_branch # refs.head
                  => refs.branches[last.pre.source_branch]
                         = last.pre.refs.branches[last.pre.source_branch]

\* C15 witness: a merge of another branch has returned where source and
\* current held different values for one key and current held a key that
\* source lacked.
C15_Witness ==
    /\ last.ev = "merge"
    /\ last.pre.source_branch # refs.head
    /\ \E k \in Keys :
          /\ HasKey(last.pre.source, k) /\ HasKey(last.pre.current, k)
          /\ ValueOf(last.pre.source, k) # ValueOf(last.pre.current, k)
    /\ \E k \in Keys : HasKey(last.pre.current, k) /\ ~HasKey(last.pre.source, k)

\* the keys a commit sets (added or modified against its parent's entries)
\* and the keys it removes
KeysSet(parent, tree) ==
    {k \in Keys : HasKey(tree, k) /\ (~HasKey(parent, k) \/ ValueOf(parent, k) # ValueOf(tree, k))}
KeysRemoved(parent, tree) == {k \in Keys : HasKey(parent, k) /\ ~HasKey(tree, k)}

\* new is old with the change parent -> tree applied: set keys take the
\* value of tree, removed keys are absent, every other key is as in old
Replayed(old, parent, tree, new) ==
    \A k \in Keys :
        IF k \in KeysSet(parent, tree)
        THEN HasKey(new, k) /\ ValueOf(new, k) = ValueOf(tree, k)
        ELSE IF k \in KeysRemoved(parent, tree)
        THEN ~HasKey(new, k)
        ELSE /\ HasKey(new, k) <=> HasKey(old, k)
             /\ HasKey(old, k) => ValueOf(new, k) = ValueOf(old, k)

\* C16: after cherry_pick(c) the tree of the new commit is the old current
\* tree with the diff of c against its parent applied (added and modified
\* keys take c's values, removed keys are absent, other keys are unchanged),
\* and that commit is the new head of the current branch, its parent the
\* previous head.
C16_CherryPickAppliesDiff ==
    last.ev = "cherry_pick"
        => /\ IsOk(TreeOfCommit(commits, trees, last.commit.id))
           /\ Replayed(last.pre.current, last.pre.parent_tree.entries,
                       last.pre.commit_tree.entries, CommittedEntries)
           /\ refs.head = last.pre.refs.head
           /\ refs.branches[refs.head] = last.commit.id
           /\ last.commit.parent = PreviousHead

\* C16 witness: a cherry_pick has returned whose commit removed a key that
\* the current tree held, while the current tree held another key that the
\* commit did not touch.
C16_Witness ==
    /\ last.ev = "cherry_pick"
    /\ \E k \in KeysRemoved(last.pre.parent_tree.entries, last.pre.commit_tree.entries) :
          HasKey(last.pre.current, k)
    /\ \E k \in Keys :
          /\ HasKey(last.pre.current, k)
          /\ k \notin KeysSet(last.pre.parent_tree.entries, last.pre.commit_tree.entries)
          /\ k \notin KeysRemoved(last.pre.parent_tree.entries, last.pre.commit_tree.entries)

\* old with the change parent -> tree applied
ReplayOne(old, parent, tree) ==
    {e \in old : e[1] \notin KeysSet(parent, tree) \cup KeysRemoved(parent, tree)}
        \cup {e \in tree : e[1] \in KeysSet(parent, tree)}

RECURSIVE ReplayFrom(_, _, _)
\* the changes steps[i], steps[i+1], ... applied in order to the entries t
ReplayFrom(t, steps, i) ==
    IF i > Len(steps) THEN t
    ELSE ReplayFrom(ReplayOne(t, steps[i].parent, steps[i].tree), steps, i + 1)

\* the keys that some replayed commit sets or removes
KeysTouched(steps) ==
    UNION {KeysSet(steps[i].parent, steps[i].tree) \cup KeysRemoved(steps[i].parent, steps[i].tree)
               : i \in 1 .. Len(steps)}

\* C17: after rebase(onto) the current tree is the tree of onto's head with
\* the change of each unique commit against its parent applied, oldest
\* first; the keys of onto's head that no unique commit touches keep onto's
\* value; one new commit per unique commit was made and the current branch
\* names the last.
C17_RebasePreservesContent ==
    last.ev = "rebase"
        => /\ IsOk(CurrentTree(refs, commits, trees))
           /\ CurrentTree(refs, commits, trees)[2].entries
                  = ReplayFrom(last.pre.onto, last.pre.replay, 1)
           /\ \A k \in KeysOf(last.pre.onto) \ KeysTouched(last.pre.replay) :
                  TreeLookup(k) = Ok(ValueOf(last.pre.onto, k))
           /\ Len(last.new_commits) = Len(last.pre.replay)
           /\ refs.head = last.pre.refs.head
           /\ refs.branches[refs.head] = last.new_commits[Len(last.new_commits)].id

\* C17 witness: a rebase has returned onto a head that held, for a key no
\* replayed commit touched, another value than a replayed commit's tree.
C17_Witness ==
    /\ last.ev = "rebase"
    /\ \E k \in KeysOf(last.pre.onto) \ KeysTouched(last.pre.replay) :
          \E i \in 1 .. Len(last.pre.replay) :
              /\ HasKey(last.pre.replay[i].tree, k)
              /\ ValueOf(last.pre.replay[i].tree, k) # ValueOf(last.pre.onto, k)

\* the keys of the current tree whose value yields the token v for the
\* field path (none when the value is not JSON or lacks the field)
KeysWithToken(field_path, v) ==
    LET cur == CurrentTreeOrEmpty(refs, commits, trees).entries
    IN {k \in Keys : HasKey(cur, k) /\ ExtractField(field_path, ValueOf(cur, k)) = Some(v)}

IndexesExact ==
    \A n \in DOMAIN indexes : \A v \in Tokens :
        Query(indexes, n, v) = Ok(KeysWithToken(indexes[n].field_path, v))

\* C18: whenever no operation is in flight, after any sequence of put,
\* delete, create_index and drop_index, query(index, v) returns exactly the
\* keys of the current tree whose value yields the token v for the index's
\* field path.
C18_IndexCorrectAfterPutDelete ==
    op.pc = "idle" => IndexesExact

\* C18 witness: a put has returned that moved key a from token x to token
\* y of index byf (an earlier put returned a tree where a yields x), the
\* tree holding key b as well, which x no longer finds.
C18_Witness ==
    /\ op.pc = "idle"
    /\ last.ev = "put"
    /\ "byf" \in DOMAIN indexes
    /\ Query(indexes, "byf", "y") = Ok({"a"})
    /\ Query(indexes, "byf", "x") = Ok({})
    /\ HasKey(CurrentTreeOrEmpty(refs, commits, trees).entries, "b")
    /\ \E r \in returned : r[1] # last.commit.id /\ HasKey(r[2], "a")
                               /\ ExtractField("f", ValueOf(r[2], "a")) = Some("x")

\* C19: whenever no operation is in flight, after any sequence that also
\* contains checkout, merge, cherry_pick and rebase, query(index, v) returns
\* exactly the keys of the current branch's tree whose value yields the
\* token v for the index's field path.
C19_IndexCorrectAfterAnyMutation ==
    (op.pc = "idle" /\ last.ev \in {"checkout", "merge", "cherry_pick", "rebase"})
        => IndexesExact

\* C20: no two tag files carry the same name, and a create_tag that
\* returned Ok found no tag file of its name other than the one it wrote.
C20_TagNamesUnique ==
    /\ \A t1, t2 \in tags : t1.name = t2.name => t1 = t2
    /\ last.ev = "create_tag" => TagsByName(last.pre_tags, last.tag.name) = {}

\* C21: when no thread is inside put, the puts that threads made on
\* different keys are all there: every commit a put returned is in log(),
\* log() holds nothing else (so the returned commits form one parent
\* chain), and the current tree holds every key that was put.
C21_NoLostUpdate ==
    (\A t \in Threads : threadOp[t].pc = "idle")
        => /\ IsOk(Log(refs, commits))
           /\ {r[1] : r \in returned} = {c.id : c \in Range(Log(refs, commits)[2])}
           /\ \A r \in returned :
                  KeysOf(r[2]) \subseteq KeysOf(CurrentTreeOrEmpty(refs, commits, trees).entries)

\* C22: every commit record on disk has the id that compute_id gives for
\* its own parent, tree_root, timestamp and message.
C22_CommitIdIsHashOfFields ==
    \A c \in commits : c.id = ComputeId(c.parent, c.tree_root, c.timestamp, c.message)

\* C23: the first begin() of a database returns 1 and every later begin(),
\* on the same handle or after any number of reopens, returns an id greater
\* than every id returned before.
C23_TxIdsIncrease ==
    /\ allocated # <<>> => allocated[1] = 1
    /\ \A i, j \in 1 .. Len(allocated) : i < j => allocated[i] < allocated[j]

\* C24: recover() reports a transaction as uncommitted exactly when the
\* WAL holds its Begin record and neither a Commit nor a Rollback record of
\* its id, and as committed exactly when the WAL holds a Commit record of
\* its id, with the commit id of such a record; a transaction with a
\* Rollback record and no Commit record is in neither set.
C24_RecoveryAnalysis ==
    last.ev = "recover"
        => \A tx \in 1 .. MaxTx :
              LET has(type) == \E i \in 1 .. Len(wal) : wal[i].type = type /\ wal[i].tx_id = tx
                  r == last.recovery
              IN /\ tx \in r.uncommitted
                        <=> (has("Begin") /\ ~has("Commit") /\ ~has("Rollback"))
                 /\ tx \in DOMAIN r.committed <=> has("Commit")
                 /\ tx \in DOMAIN r.committed
                        => \E i \in 1 .. Len(wal) :
                              wal[i] = WalCommit(tx, r.committed[tx])
                 /\ (has("Rollback") /\ ~has("Commit"))
                        => tx \notin r.uncommitted /\ tx \notin DOMAIN r.committed

\* C24 witness: recover() has run on a WAL with three transactions begun,
\* one of them committed, one rolled back and one left open.
C24_Witness ==
    /\ last.ev = "recover"
    /\ DOMAIN last.recovery.committed = {1}
    /\ last.recovery.uncommitted = {3}
    /\ \E i \in 1 .. Len(wal) : wal[i] = WalRollback(2)
    /\ \E i \in 1 .. Len(wal) : wal[i] = WalBegin(2)

\* C25: init on a new directory gives head main and no branch; every open
\* leaves refs (head included), commits, trees, blocks and tags as they are
\* and the WAL empty; an open that directly follows an open changes nothing
\* that the handle lets one observe (files, bloom filter, indexes).
C25_OpenIdempotent ==
    /\ refs = [branches |-> [b \in {} |-> None], head |-> "main"]
    /\ [][reopens' # reopens
             => /\ refs' = refs /\ commits' = commits /\ trees' = trees
                /\ blocks' = blocks /\ tags' = tags
                /\ wal' = <<>>
                /\ last.ev = "reopen"
                       => /\ wal' = wal /\ bloom' = bloom /\ bloomFile' = bloomFile
                          /\ indexes' = indexes /\ indexFile' = indexFile]_vars

\* C25 witness: the database was opened twice in a row after writes (the
\* first of the two opens found their records in the WAL, the second an
\* empty WAL) and holds a commit.
C25_Witness ==
    /\ reopens = 2
    /\ last.ev = "reopen" /\ last.crashed.name = "idle"
    /\ allocated # <<>>
    /\ commits # {}

\* C26: whenever a step of put, delete, merge, cherry_pick or rebase
\* changes the refs file, the WAL already holds the Begin record and an
\* intent record (Write or Delete) of a transaction that has no Commit
\* record yet.
C26_WalBeforeRefs ==
    [][(op.name \in {"put", "delete", "merge", "cherry_pick", "rebase"} /\ refs' # refs)
          => \E tx \in TxIdsOf(wal, "Begin") :
                /\ tx \in TxIdsOf(wal, "Write") \cup TxIdsOf(wal, "Delete")
                /\ tx \notin TxIdsOf(wal, "Commit")]_vars

\* whether the commit at place i (from 1, newest first) of the log given to
\* the planner is removable under the policy it was given
PlannedAway(i) ==
    \/ last.policy.max_versions > 0 /\ i - 1 >= last.policy.max_versions
    \/ /\ last.policy.max_age_days # None
       /\ last.today - last.log[i].timestamp[1] > last.policy.max_age_days[1]

\* C27: find_removable_commits returns exactly the ids of the commits that
\* are beyond max_versions (when it is positive) or older in whole days than
\* max_age_days (when it is set), each once and in list order; with
\* max_versions = 0 and max_age_days = None it returns nothing.
C27_PlannerExact ==
    last.ev = "plan"
        => /\ Range(last.removable) = {last.log[i].id : i \in {j \in 1 .. Len(last.log) : PlannedAway(j)}}
           /\ \A j, k \in 1 .. Len(last.removable) :
                  j < k => \E a, b \in 1 .. Len(last.log) :
                              /\ a < b
                              /\ last.log[a].id = last.removable[j]
                              /\ last.log[b].id = last.removable[k]
           /\ (last.policy.max_versions = 0 /\ last.policy.max_age_days = None)
                  => last.removable = <<>>

\* C27 witness: the planner ran on a log of three commits with
\* max_versions = 1 and max_age_days = 0 on a later day than the oldest
\* commit, and with max_versions = 2 would have removed one commit fewer.
C27_Witness ==
    /\ last.ev = "plan"
    /\ Len(last.log) = 3
    /\ last.policy = [max_versions |-> 1, max_age_days |-> <<0>>]
    /\ last.today > last.log[3].timestamp[1]
    /\ last.today = last.log[1].timestamp[1]
    /\ Len(last.removable) = 2

\* C28: a filter may_contain every key that was inserted into it or into a
\* filter that was successfully merged into it, and merge with a filter of
\* different num_bits or num_hashes returns false.
C28_BloomNoFalseNegative ==
    /\ \A f \in FilterNames : \A k \in inserted[f] : FilterMayContain(filters[f], k)
    /\ (/\ last.ev = "bloom_merge"
        /\ \/ filters[last.into].num_bits # filters[last.from].num_bits
           \/ filters[last.into].num_hashes # filters[last.from].num_hashes)
           => last.result = FALSE

\* C28 witness: a merge succeeded into a filter that had one key inserted
\* and brought it the other key.
C28_Witness ==
    /\ last.ev = "bloom_merge"
    /\ last.result
    /\ Cardinality(last.pre_inserted) = 1
    /\ inserted[last.into] = Keys

\* whether the database is as put and delete calls alone leave a fresh one:
\* no call in flight, no branch but main, every commit one they returned
OnlyPutsAndDeletes ==
    /\ op.pc = "idle"
    /\ \A t \in Threads : threadOp[t].pc = "idle"
    /\ refs.head = "main"
    /\ DOMAIN refs.branches \subseteq {"main"}
    /\ {c.id : c \in commits} \subseteq {r[1] : r \in returned}

\* C29: log() returns the commits of the current branch newest first: the
\* first is the branch head, each one's parent is the next one, the last has
\* no parent; after n successful put and delete calls on a fresh database it
\* has n elements, newest first; on a branch without commits it is empty
\* while head_commit fails with EmptyDatabase.
C29_LogIsHeadChain ==
    LET l == Log(refs, commits)
    IN /\ IsOk(l)
       /\ refs.head \notin DOMAIN refs.branches
              => l[2] = <<>> /\ HeadCommit(refs, commits) = Err("EmptyDatabase")
       /\ refs.head \in DOMAIN refs.branches
              => /\ l[2] # <<>>
                 /\ l[2][1].id = refs.branches[refs.head]
                 /\ \A i \in 1 .. Len(l[2]) - 1 : l[2][i].parent = Some(l[2][i + 1].id)
                 /\ l[2][Len(l[2])].parent = None
       /\ OnlyPutsAndDeletes
              => /\ Len(l[2]) = Cardinality(returned)
                 /\ \A i \in 1 .. Len(l[2]) - 1 :
                        l[2][i].timestamp[2] > l[2][i + 1].timestamp[2]

\* C30: delete_branch(name) fails when name is the current head and leaves
\* refs as they were; it fails with BranchNotFound when name is not a branch;
\* when it succeeds only the entry name is gone from refs: head and every
\* other branch are as they were before its write.
C30_DeleteBranchOnlyRemovesName ==
    last.ev = "delete_branch"
        => /\ last.pre_refs.head = last.name
                  => ~IsOk(last.result) /\ refs = last.pre_refs
           /\ last.name \notin BranchNames(last.pre_refs)
                  => last.result = Err("BranchNotFound") /\ refs = last.pre_refs
           /\ IsOk(last.result)
                  => /\ refs.head = last.pre_refs.head
                     /\ DOMAIN refs.branches = DOMAIN last.pre_refs.branches \ {last.name}
                     /\ \A b \in DOMAIN refs.branches :
                            refs.branches[b] = last.pre_refs.branches[b]

\* C31: create_branch(name) fails with BranchExists whenever a branch called
\* name exists, the current head branch without commits included, and then
\* leaves refs as they were; when it succeeds on a branch with commits, name
\* gets the head commit id and head stays.
C31_CreateBranchRejectsExisting ==
    last.ev = "create_branch"
        => /\ last.name \in BranchNames(last.pre_refs)
                  => last.result = Err("BranchExists") /\ refs = last.pre_refs
           /\ (IsOk(last.result) /\ last.pre_refs.head \in DOMAIN last.pre_refs.branches)
                  => /\ refs.head = last.pre_refs.head
                     /\ last.name \in DOMAIN refs.branches
                     /\ refs.branches[last.name] = last.pre_refs.branches[last.pre_refs.head]

\* C33: rebase(onto) returns its commits in replay order: the i-th carries
\* the message of the i-th unique commit (oldest first), the first has onto's
\* head as parent and each later one the one before it; afterwards the
\* current branch names the last of them while onto's ref and head are as
\* before. With no commit outside onto's ancestry it returns the empty list,
\* and onto the current branch it fails; both change nothing.
C33_RebaseCommitChain ==
    /\ last.ev = "rebase"
           => LET new == last.new_commits
                  old == last.unique_commits
                  pre == last.pre.refs
              IN /\ Len(new) = Len(old) /\ new # <<>>
                 /\ \A i \in 1 .. Len(old) - 1 : old[i + 1].parent = Some(old[i].id)
                 /\ \A i \in 1 .. Len(old) :
                        old[i].id \notin Walk(commits, pre.branches[last.onto_branch], {})
                 /\ new[1].parent = Some(pre.branches[last.onto_branch])
                 /\ \A i \in 2 .. Len(new) : new[i].parent = Some(new[i - 1].id)
                 /\ \A i \in 1 .. Len(new) : new[i].message = old[i].message
                 /\ refs.branches[pre.head] = new[Len(new)].id
                 /\ refs.branches[last.onto_branch] = pre.branches[last.onto_branch]
                 /\ refs.head = pre.head
    /\ last.ev = "rebase_nothing"
           => /\ last.result = Ok(<<>>)
              /\ refs = last.pre_refs /\ commits = last.pre_commits
              /\ IsOk(Log(refs, commits))
              /\ \A c \in Range(Log(refs, commits)[2]) :
                     c.id \in Walk(commits, refs.branches[last.onto_branch], {})
    /\ (last.ev = "rebase_rejected" /\ last.onto_branch = last.pre_refs.head)
           => /\ ~IsOk(last.result)
              /\ refs = last.pre_refs /\ commits = last.pre_commits

\* C33 witness: a rebase replayed two commits with different messages onto
\* a branch whose head is not a commit of the rebased branch.
C33_Witness ==
    /\ last.ev = "rebase"
    /\ Len(last.new_commits) = 2
    /\ last.unique_commits[1].message # last.unique_commits[2].message
    /\ last.new_commits[1].id # last.unique_commits[1].id

\* whether the digest h is the hash of the pairs of entries, each once, in
\* ascending key order
IsHashOfSorted(h, entries) ==
    /\ h[1] = "sha256"
    /\ Range(h[2]) = entries
    /\ Len(h[2]) = Cardinality(entries)
    /\ \A i, j \in 1 .. Len(h[2]) :
           i < j => \E p, q \in 1 .. Len(KeySeq) :
                       p < q /\ KeySeq[p] = h[2][i][1] /\ KeySeq[q] = h[2][j][1]

\* C32: every tree the engine has built, by insert and delete or by merge's
\* direct fill of the map, has as root_hash the hash of the key-sorted
\* serialization of its entries, so trees with the same mapping have the
\* same root_hash however they were produced.
C32_RootHashOfSortedEntries ==
    /\ \A t \in trees : IsHashOfSorted(t.root_hash, t.entries)
    /\ op.pc \notin {"idle", "begun"} /\ "tree" \in DOMAIN op
           => IsHashOfSorted(op.tree.root_hash, op.tree.entries)
    /\ \A t1, t2 \in trees : t1.entries = t2.entries => t1.root_hash = t2.root_hash

\* C32 witness: a merge commit and a commit returned by put have trees with
\* the same two-key mapping, and the same tree_root.
C32_Witness ==
    \E c \in commits, r \in returned :
        /\ c.message[1] = "merge"
        /\ c.id # r[1]
        /\ Cardinality(r[2]) = 2
        /\ \E t \in trees : t.root_hash = c.tree_root /\ t.entries = r[2]
        /\ \E d \in commits : d.id = r[1] /\ d.tree_root = c.tree_root

\* C34: after any sequence of index_entry, remove_key and rebuild_all calls
\* every primary key is in at most one bucket of each index and no index
\* holds an empty bucket; index_entry of a key with a new field value takes
\* it out of its old bucket.
C34_IndexBuckets ==
    /\ \A n \in DOMAIN buckets :
           LET e == buckets[n].entries
           IN /\ \A v \in DOMAIN e : e[v] # {}
              /\ \A v, w \in DOMAIN e : v # w => e[v] \cap e[w] = {}
    /\ last.ev = "index_entry"
           => LET e == buckets[last.index].entries
                  field_val == ExtractField(buckets[last.index].field_path, last.value)
              IN \A v \in DOMAIN last.pre_entries :
                     (last.key \in last.pre_entries[v] /\ field_val # Some(v) /\ v \in DOMAIN e)
                         => last.key \notin e[v]

\* C34 witness: index_entry moved a key out of a bucket it shared with no
\* other key into another bucket, and the old bucket is gone.
C34_Witness ==
    /\ last.ev = "index_entry"
    /\ \E v \in DOMAIN last.pre_entries :
           /\ last.pre_entries[v] = {last.key}
           /\ v \notin DOMAIN buckets[last.index].entries
           /\ \E w \in DOMAIN buckets[last.index].entries :
                  last.key \in buckets[last.index].entries[w]

\* C35: when put or delete has returned, with success or with an error
\* raised after begin(), its WAL transaction has a terminating record
\* (Commit on success, Rollback on failure): while the process runs and no
\* operation is in flight, no transaction of the WAL has only its Begin.
C35_TransactionsTerminated ==
    /\ op.pc = "idle"
           => \A tx \in TxIdsOf(wal, "Begin") :
                  tx \in TxIdsOf(wal, "Commit") \cup TxIdsOf(wal, "Rollback")
    /\ last.ev = "io_error" => last.tx \in TxIdsOf(wal, "Rollback")

\* C36: after any sequence of put calls on a block store, with contains and
\* get calls in between, block_count() is the number of distinct digests
\* that were put: a block put twice counts once, two different blocks count
\* as two whether or not their digests share the two-character prefix.
C36_BlockCountIsDistinctPuts ==
    BlockCount(blockStore) = Cardinality(blockStore.files)

\* C37: once a commit has succeeded, in every state under put, delete,
\* create_branch, checkout, delete_branch, merge, cherry_pick and rebase
\* refs.head is a key of refs.branches; checkout of a name that is neither
\* a branch nor the current head fails with BranchNotFound and leaves refs
\* as they were.
C37_HeadIsABranch ==
    /\ (returned # {} \/ DOMAIN refs.branches # {}) => refs.head \in DOMAIN refs.branches
    /\ last.ev = "checkout" => refs.head = last.name
    /\ last.ev = "checkout_rejected"
           => /\ last.name \notin DOMAIN last.pre_refs.branches
              /\ last.name # last.pre_refs.head
              /\ last.result = Err("BranchNotFound")
              /\ refs = last.pre_refs

\* C37 witness: head was moved to feat and main was deleted, and after
\* that a checkout of main was rejected.
C37_Witness ==
    /\ refs.head = "feat"
    /\ DOMAIN refs.branches = {"feat"}
    /\ last.ev = "checkout_rejected"
    /\ last.name = "main"

\* C38: when several threads run put and delete on one handle, every
\* transaction gets its own tx_id, its Begin record is immediately followed
\* by its own intent record, its Commit record comes after its intent
\* record, and each tx_id has at most one Begin and one Commit record.
C38_WalOrderUnderThreads ==
    /\ \A i, j \in 1 .. Len(allocated) : i # j => allocated[i] # allocated[j]
    /\ \A i, j \in 1 .. Len(wal) :
           (i # j /\ wal[i].type = wal[j].type /\ wal[i].type \in {"Begin", "Commit"})
               => wal[i].tx_id # wal[j].tx_id
    /\ \A i \in 1 .. Len(wal) :
           wal[i].type = "Begin"
               => /\ i < Len(wal)
                  /\ wal[i + 1].type \in {"Write", "Delete"}
                  /\ wal[i + 1].tx_id = wal[i].tx_id
    /\ \A j \in 1 .. Len(wal) :
           wal[j].type = "Commit"
               => \E i \in 1 .. j - 1 :
                      wal[i].type \in {"Write", "Delete"} /\ wal[i].tx_id = wal[j].tx_id

\* C38 witness: the WAL holds the Begin and intent records of a put and of
\* a delete of two threads before the Commit record of either, and both
\* Commit records after them.
C38_Witness ==
    \E i \in 1 .. Len(wal) - 5 :
        /\ wal[i].type = "Begin" /\ wal[i + 2].type = "Begin"
        /\ {wal[i + 1].type, wal[i + 3].type} = {"Write", "Delete"}
        /\ wal[i + 4].type = "Commit" /\ wal[i + 5].type = "Commit"
        /\ wal[i + 4].tx_id = wal[i + 2].tx_id

\* the mutexes the thread t holds
HeldBy(t) == {m \in Mutexes : locks[m] = Some(t)}

\* C39: no operation ever holds two of the three mutexes at the same time,
\* and whatever the interleaving of the operations of parallel threads,
\* every thread that is inside an operation completes it.
C39_NoTwoMutexes ==
    /\ [](\A t \in Threads : Cardinality(HeldBy(t)) <= 1)
    /\ \A t \in Threads : (threadOp[t].pc = "locks") ~> (threadOp[t].pc = "idle")

\* C39 witness: one thread is inside put and holds the WAL mutex while the
\* other thread, inside stats, has reached its lock of the WAL mutex.
C39_Witness ==
    /\ threadOp["t1"].pc = "locks" /\ threadOp["t1"].name = "put"
    /\ locks["wal"] = Some("t1")
    /\ threadOp["t2"].pc = "locks" /\ threadOp["t2"].name = "stats"
    /\ Head(threadOp["t2"].todo) = <<"lock", "wal">>

\* C40: a delete of a key that the current tree lacks returns its error
\* with no WAL record appended, and the WAL, refs, commits, trees, bloom
\* filter and indexes are as they were before the call; log() is as long
\* as it was.
C40_RejectedDeleteHasNoEffect ==
    last.ev = "delete_rejected"
        => /\ ~IsOk(last.result)
           /\ wal = last.pre.wal
           /\ refs = last.pre.refs
           /\ commits = last.pre.commits
           /\ trees = last.pre.trees
           /\ bloom = last.pre.bloom /\ bloomFile = last.pre.bloomFile
           /\ indexes = last.pre.indexes /\ indexFile = last.pre.indexFile
           /\ Log(refs, commits) = Log(last.pre.refs, last.pre.commits)

\* C40 witness: a delete of a key the current tree lacks was rejected with
\* KeyNotFound on a database whose WAL and log are not empty.
C40_Witness ==
    /\ last.ev = "delete_rejected"
    /\ last.result = Err("KeyNotFound")
    /\ IsOk(CurrentTree(refs, commits, trees))
    /\ CurrentTree(refs, commits, trees)[2].entries # {}
    /\ Len(wal) > 0
    /\ IsOk(Log(refs, commits)) /\ Len(Log(refs, commits)[2]) > 0
====
